---------------------------- MODULE Spec2Model ----------------------------
(***************************************************************************)
(* State-machine model of msk-bot (src/bot.py): the coordinate-conversion  *)
(* wizard kept in context.user_data, the three input handlers, the         *)
(* notation parsers, the transform / render stage and the expert chat      *)
(* with its usage store.                                                    *)
(*                                                                          *)
(* Conventions                                                              *)
(*  - A text is a sequence of one-character strings.  The degree sign is   *)
(*    the element DEG, the line break the element NL.                       *)
(*  - A Python float is a rational <<n, d>> in lowest terms, d > 0.         *)
(*  - A key that is absent from a dict reads as None.                       *)
(*  - The Application is built without concurrent_updates (bot.py 1264),    *)
(*    so one handler runs to completion before the next update is taken:    *)
(*    every handler is one action.                                          *)
(***************************************************************************)
EXTENDS Integers, Sequences, FiniteSets, TLC

\* ------------------------------------------------------------------------
\* Characters and small helpers
\* ------------------------------------------------------------------------
None == <<"None">>

NL == "\n"

DEG == "deg"

Digits == {"0", "1", "2", "3", "4", "5", "6", "7", "8", "9"}

DigitVal(c) ==
    CASE c = "0" -> 0 [] c = "1" -> 1 [] c = "2" -> 2 [] c = "3" -> 3
      [] c = "4" -> 4 [] c = "5" -> 5 [] c = "6" -> 6 [] c = "7" -> 7
      [] c = "8" -> 8 [] c = "9" -> 9

DigitChar(v) ==
    CASE v = 0 -> "0" [] v = 1 -> "1" [] v = 2 -> "2" [] v = 3 -> "3"
      [] v = 4 -> "4" [] v = 5 -> "5" [] v = 6 -> "6" [] v = 7 -> "7"
      [] v = 8 -> "8" [] v = 9 -> "9"

\* \s of the regular expressions and the characters str.strip() removes
Whitespace == {" ", "\t", NL}

Abs(n) == IF n < 0 THEN -n ELSE n

RECURSIVE Pow10(_)
Pow10(k) == IF k = 0 THEN 1 ELSE 10 * Pow10(k - 1)

RECURSIVE GCD(_, _)
GCD(a, b) == IF b = 0 THEN a ELSE GCD(b, a % b)

\* a float as a rational in lowest terms
Rat(n, d) ==
    LET g == GCD(Abs(n), d)
    IN  IF n = 0 THEN <<0, 1>> ELSE <<n \div g, d \div g>>

RatAdd(p, q) == Rat(p[1] * q[2] + q[1] * p[2], p[2] * q[2])

RatNeg(p) == <<-p[1], p[2]>>

RatDivInt(p, k) == Rat(p[1], p[2] * k)

\* first position >= i of s that holds no character of set cs (Len(s)+1 if none)
RECURSIVE RunEnd(_, _, _)
RunEnd(s, i, cs) ==
    IF i <= Len(s) /\ s[i] \in cs THEN RunEnd(s, i + 1, cs) ELSE i

\* value of a run of decimal digits
RECURSIVE DigitsVal(_)
DigitsVal(ds) ==
    IF ds = <<>> THEN 0
    ELSE 10 * DigitsVal(SubSeq(ds, 1, Len(ds) - 1)) + DigitVal(ds[Len(ds)])

\* str.replace(",", ".")
ReplaceComma(s) == [i \in 1..Len(s) |-> IF s[i] = "," THEN "." ELSE s[i]]

\* the outcome of a conversion that may raise ValueError
Raised == [ok |-> FALSE, v |-> <<0, 1>>]

Value(q) == [ok |-> TRUE, v |-> q]

\* float(s) for s made of an optional sign, digits and dots:
\* [+-]? ( digits [. digits*] | . digits ), anything else raises ValueError
float(s) ==
    LET neg   == s # <<>> /\ s[1] = "-"
        start == IF s # <<>> /\ s[1] \in {"-", "+"} THEN 2 ELSE 1
        e1    == RunEnd(s, start, Digits)
        dot   == e1 <= Len(s) /\ s[e1] = "."
        e2    == IF dot THEN RunEnd(s, e1 + 1, Digits) ELSE e1
        ip    == SubSeq(s, start, e1 - 1)
        fp    == IF dot THEN SubSeq(s, e1 + 1, e2 - 1) ELSE <<>>
        mag   == Rat(DigitsVal(ip) * Pow10(Len(fp)) + DigitsVal(fp), Pow10(Len(fp)))
    IN  IF e2 # Len(s) + 1 \/ (ip = <<>> /\ fp = <<>>) THEN Raised
        ELSE IF neg THEN Value(RatNeg(mag)) ELSE Value(mag)

\* str.strip()
RECURSIVE strip(_)
strip(s) ==
    IF s = <<>> THEN s
    ELSE IF s[1] \in Whitespace THEN strip(Tail(s))
    ELSE IF s[Len(s)] \in Whitespace THEN strip(SubSeq(s, 1, Len(s) - 1))
    ELSE s

\* first position >= i of s that holds character c (Len(s)+1 if none)
RECURSIVE IndexOf(_, _, _)
IndexOf(s, i, c) ==
    IF i <= Len(s) /\ s[i] # c THEN IndexOf(s, i + 1, c) ELSE i

\* str.splitlines(): the lines of a text, line breaks removed, no empty
\* last line after a final line break (NL is the only line break modelled)
RECURSIVE splitlines(_)
splitlines(s) ==
    IF s = <<>> THEN <<>>
    ELSE LET e == IndexOf(s, 1, NL)
         IN  <<SubSeq(s, 1, e - 1)>> \o splitlines(SubSeq(s, e + 1, Len(s)))

\* ------------------------------------------------------------------------
\* Regular expressions (bot.py 90-106)
\* ------------------------------------------------------------------------
\* NUM_RE = [-+]?\d+(?:[.,]\d+)? : the end (exclusive) of the match that
\* starts at i, 0 if there is none.  Every quantifier is greedy and no
\* shorter choice can succeed where the greedy one fails.
NUM_RE_match(s, i) ==
    LET j == IF i <= Len(s) /\ s[i] \in {"-", "+"} THEN i + 1 ELSE i
        k == RunEnd(s, j, Digits)
    IN  IF k = j THEN 0
        ELSE IF k + 1 <= Len(s) /\ s[k] \in {".", ","} /\ s[k + 1] \in Digits
             THEN RunEnd(s, k + 1, Digits)
             ELSE k

\* NUM_RE.findall(s): the non-overlapping matches, left to right
RECURSIVE NUM_RE_scan(_, _)
NUM_RE_scan(s, i) ==
    IF i > Len(s) THEN <<>>
    ELSE LET e == NUM_RE_match(s, i)
         IN  IF e = 0 THEN NUM_RE_scan(s, i + 1)
             ELSE <<SubSeq(s, i, e - 1)>> \o NUM_RE_scan(s, e)

NUM_RE_findall(s) == NUM_RE_scan(s, 1)

\* DMS_LINE_RE: the match that starts at i, as [end, groups], or [end |-> 0].
\* groups = <<degrees, minutes, seconds, hemisphere>>, hemisphere <<>> when
\* the optional group did not take part (findall gives '' for it).
DMS_LINE_RE_match(s, i) ==
    LET j  == IF i <= Len(s) /\ s[i] \in {"-", "+"} THEN i + 1 ELSE i
        d  == RunEnd(s, j, Digits)
        p1 == RunEnd(s, d, {DEG, "-", "d"} \cup Whitespace)
        m  == RunEnd(s, p1, Digits)
        p2 == RunEnd(s, m, {"'", "-", "m"} \cup Whitespace)
        c  == RunEnd(s, p2, Digits \cup {"."})
        q  == IF c <= Len(s) /\ s[c] \in {"\"", "s"} THEN c + 1 ELSE c
        w  == RunEnd(s, q, Whitespace)
        h  == IF w <= Len(s) /\ s[w] \in {"N", "S", "E", "W", "n", "s", "e", "w"}
              THEN w + 1 ELSE w
    IN  IF d = j \/ p1 = d \/ m = p1 \/ p2 = m \/ c = p2 THEN [end |-> 0]
        ELSE [end |-> h,
              groups |-> <<SubSeq(s, i, d - 1), SubSeq(s, p1, m - 1),
                           SubSeq(s, p2, c - 1), SubSeq(s, w, h - 1)>>]

RECURSIVE DMS_LINE_RE_scan(_, _)
DMS_LINE_RE_scan(s, i) ==
    IF i > Len(s) THEN <<>>
    ELSE LET r == DMS_LINE_RE_match(s, i)
         IN  IF r.end = 0 THEN DMS_LINE_RE_scan(s, i + 1)
             ELSE <<r.groups>> \o DMS_LINE_RE_scan(s, r.end)

DMS_LINE_RE_findall(s) == DMS_LINE_RE_scan(s, 1)

\* ------------------------------------------------------------------------
\* Notation parsers (bot.py 108-159, 354-377)
\* ------------------------------------------------------------------------
\* dms_to_dd on one findall group; raises when a float() of it raises.
\* dms_sum is abs(deg) + mn / 60 + sec / 3600 and dms_value the signed result,
\* both on the three converted numbers.
dms_sum(d, m, s) ==
    RatAdd(<<Abs(d[1]), d[2]>>, RatAdd(RatDivInt(m, 60), RatDivInt(s, 3600)))

dms_value(d, m, s, hemi) ==
    IF ~d.ok \/ ~m.ok \/ ~s.ok THEN Raised
    ELSE IF d.v[1] < 0 \/ hemi \in {<<"S">>, <<"s">>, <<"W">>, <<"w">>}
         THEN Value(RatNeg(dms_sum(d.v, m.v, s.v)))
         ELSE Value(dms_sum(d.v, m.v, s.v))

dms_to_dd(deg, mn, sec, hemi) == dms_value(float(deg), float(mn), float(sec), hemi)

\* the outcome of a parser: ok = FALSE when it raised, else the points found
ParseRaised == [ok |-> FALSE, pts |-> <<>>]

Parsed(pts) == [ok |-> TRUE, pts |-> pts]

\* dms_to_dd(*matches[k])
dms_group(g) == dms_to_dd(g[1], g[2], g[3], g[4])

\* (x, y) of parse_dms_line, raised when either conversion raised
dms_point(x, y) ==
    IF ~x.ok \/ ~y.ok THEN ParseRaised ELSE Parsed(<<(<<x.v, y.v>>)>>)

\* parse_dms_line after the findall
dms_matches(matches) ==
    IF Len(matches) >= 2
    THEN dms_point(dms_group(matches[1]), dms_group(matches[2]))
    ELSE Parsed(<<>>)

\* parse_dms_line: the one-point list, the empty list for None, or raised
parse_dms_line(line) == dms_matches(DMS_LINE_RE_findall(line))

\* _clean_num without the replacement of the comma
_clean_num_point_only(s) == float(s)

\* _clean_num: float(s.replace(",", ".")); ok = FALSE stands for None
_clean_num(s) == float(ReplaceComma(s))

\* "if x is not None and y is not None: pts.append((x, y))"
decimal_point(x, y) == IF x.ok /\ y.ok THEN <<(<<x.v, y.v>>)>> ELSE <<>>

\* the plain-decimal step shared by both parsers: the list holding the point
\* made of the first two numeric tokens, or the empty list
FirstTwo(nums) ==
    IF Len(nums) >= 2
    THEN decimal_point(_clean_num(nums[1]), _clean_num(nums[2]))
    ELSE <<>>

has_dms_marker(line) ==
    \E i \in 1..Len(line) : line[i] \in {DEG, "'", "\"", "d", "m", "s"}

\* the DMS attempt left out: every line is read by its numeric tokens
AutoDms_skipped(line, nums_in_line) == Parsed(<<>>)

\* one iteration of the loop of parse_points_auto (bot.py 129-146), in the
\* order of the code: the DMS attempt, the choice between its point and the
\* decimal point, the skip of an empty line, the findall, the strip
AutoDms(line, nums_in_line) ==
    IF has_dms_marker(line) \/ Len(nums_in_line) >= 3
    THEN parse_dms_line(line) ELSE Parsed(<<>>)

AutoPick(pt, nums_in_line) ==
    IF ~pt.ok THEN ParseRaised
    ELSE IF pt.pts # <<>> THEN pt
    ELSE Parsed(FirstTwo(nums_in_line))

AutoStep(line, nums_in_line) ==
    IF line = <<>> THEN Parsed(<<>>)
    ELSE AutoPick(AutoDms(line, nums_in_line), nums_in_line)

AutoStripped(line) == AutoStep(line, NUM_RE_findall(line))

\* the loop: the points of every line in order; an exception in any line
\* leaves the function
AutoJoin(h, t) == IF h.ok /\ t.ok THEN Parsed(h.pts \o t.pts) ELSE ParseRaised

RECURSIVE AutoLines(_)
AutoLines(lines) ==
    IF lines = <<>> THEN Parsed(<<>>)
    ELSE AutoJoin(AutoStripped(strip(Head(lines))), AutoLines(Tail(lines)))

\* bot.py 148-159: the fallbacks on the whole text
AutoWhole(pt, text) ==
    IF ~pt.ok THEN ParseRaised
    ELSE IF pt.pts # <<>> THEN pt
    ELSE Parsed(FirstTwo(NUM_RE_findall(text)))

AutoResult(byline, text) ==
    IF ~byline.ok THEN ParseRaised
    ELSE IF byline.pts # <<>> THEN byline
    ELSE AutoWhole(parse_dms_line(text), text)

\* parse_points_auto: DMS first, then decimal, line by line
parse_points_auto(text) == AutoResult(AutoLines(splitlines(text)), text)

RECURSIVE FromTextLines(_)
FromTextLines(lines) ==
    IF lines = <<>> THEN <<>>
    ELSE FirstTwo(NUM_RE_findall(Head(lines))) \o FromTextLines(Tail(lines))

FromTextResult(pts, text) ==
    IF pts # <<>> THEN pts ELSE FirstTwo(NUM_RE_findall(text))

\* parse_points_from_text: decimal tokens only; it never raises
parse_points_from_text(text) == FromTextResult(FromTextLines(splitlines(text)), text)

\* ------------------------------------------------------------------------
\* CRS catalog and session state (bot.py 164-185, 336-350)
\* ------------------------------------------------------------------------
\* str(n) for n >= 0
RECURSIVE str(_)
str(n) == IF n < 10 THEN <<DigitChar(n)>> ELSE str(n \div 10) \o <<DigitChar(n % 10)>>

\* int(s): optional sign and digits, raises ValueError otherwise
int(s) ==
    LET start == IF s # <<>> /\ s[1] \in {"-", "+"} THEN 2 ELSE 1
        ds    == SubSeq(s, start, Len(s))
    IN  IF ds = <<>> \/ RunEnd(ds, 1, Digits) # Len(ds) + 1 THEN [ok |-> FALSE, v |-> 0]
        ELSE [ok |-> TRUE, v |-> IF s[1] = "-" THEN -DigitsVal(ds) ELSE DigitsVal(ds)]

\* str.split(":")
RECURSIVE split(_)
split(s) ==
    LET e == IndexOf(s, 1, ":")
    IN  IF e > Len(s) THEN <<s>>
        ELSE <<SubSeq(s, 1, e - 1)>> \o split(SubSeq(s, e + 1, Len(s)))

\* str.startswith
startswith(s, prefix) ==
    Len(s) >= Len(prefix) /\ SubSeq(s, 1, Len(prefix)) = prefix

CRS_OPTIONS ==
    (<<"wgs84">> :> [label |-> <<"WGS84">>, kind |-> <<"epsg">>,
                     code |-> <<"EPSG:", "4", "3", "2", "6">>])
    @@ (<<"merc">> :> [label |-> <<"WebMercator">>, kind |-> <<"epsg">>,
                       code |-> <<"EPSG:", "3", "8", "5", "7">>])
    @@ (<<"sk42gk">> :> [label |-> <<"SK-42 GK">>, kind |-> <<"sk42_zone">>,
                         code |-> <<>>])

\* the base offset of the zoned family in f"EPSG:{28400 + z}"
ZoneBase == 28400

MinZone == 1

MaxZone == 60

\* context.user_data of a session that has not been used yet
EmptyUserData ==
    [mode |-> None, coords_src |-> None, coords_dst |-> None,
     coords_src_label |-> None, coords_dst_label |-> None,
     coords_out_mode |-> None, coords_out_mode_code |-> None,
     coords_zone_page |-> None, awaiting_zone_kind |-> None,
     awaiting |-> None, chat_history |-> None]

\* Python truth value of a string-or-None
Truthy(v) == v \notin {None, <<>>}

set_mode(ud, mode) == [ud EXCEPT !.mode = mode]

\* reset_coords_wizard that leaves the awaiting marker in place
reset_coords_wizard_keeps_awaiting(ud) ==
    [ud EXCEPT !.coords_src = None, !.coords_dst = None,
               !.coords_src_label = None, !.coords_dst_label = None,
               !.coords_out_mode = None, !.coords_out_mode_code = None,
               !.coords_zone_page = None, !.awaiting_zone_kind = None]

reset_coords_wizard(ud) ==
    [ud EXCEPT !.coords_src = None, !.coords_dst = None,
               !.coords_src_label = None, !.coords_dst_label = None,
               !.coords_out_mode = None, !.coords_out_mode_code = None,
               !.coords_zone_page = None, !.awaiting_zone_kind = None,
               !.awaiting = None]

\* ------------------------------------------------------------------------
\* Keyboards and replies (bot.py 223-332)
\* ------------------------------------------------------------------------
\* a message of the bot: its text (by name), its keyboard, the input it quotes
\* back and, for a result, the number of points it states, the table or file
\* content and the file name
Msg(text, kb) ==
    [text |-> text, kb |-> kb, quoted |-> <<>>, count |-> 0, rows |-> <<>>,
     filename |-> <<>>]

kb_root == <<"kb_root">>

kb_mine == <<"kb_mine">>

kb_land == <<"kb_land">>

kb_land_cadnum == <<"kb_land_cadnum">>

kb_coords_ready == <<"kb_coords_ready">>

kb_coords_pick_output == <<"kb_coords_pick_output">>

NoKb == <<"no_kb">>

kb_nav(back_to) == <<"kb_nav", back_to>>

\* kb_coords_main shows the labels stored in this session's user_data
kb_coords_main(ud) ==
    <<"kb_coords_main",
      IF ud.coords_src_label = None THEN <<"not chosen">> ELSE ud.coords_src_label,
      IF ud.coords_dst_label = None THEN <<"not chosen">> ELSE ud.coords_dst_label,
      IF ud.coords_out_mode = None THEN <<"not chosen">> ELSE ud.coords_out_mode>>

kb_coords_pick_crs(kind) == <<"kb_coords_pick_crs", kind>>

kb_coords_pick_zone(kind, page) ==
    <<"kb_coords_pick_zone", kind,
      IF page = <<"1">> THEN <<1, 30>> ELSE <<31, 60>>>>

\* the result of a handler: the new user_data and the messages sent
Res(ud, text, kb) == [ud |-> ud, sent |-> <<Msg(text, kb)>>]

\* an exception that leaves the handler: error_handler (bot.py 1253-1259)
Failed(ud) == Res(ud, "temporary failure", NoKb)

\* coords:pick that stores the picked entry's code whatever its kind
cb_coords_pick_stores_family(ud, data) ==
    LET parts  == split(data)
        kind   == parts[3]
        crs_id == parts[4]
        meta   == CRS_OPTIONS[crs_id]
    IN  IF Len(parts) # 4 THEN Res(ud, "pick not understood", kb_coords_main(ud))
        ELSE IF crs_id \notin DOMAIN CRS_OPTIONS
             THEN Res(ud, "unknown CRS", kb_coords_main(ud))
        ELSE LET nu == IF kind = <<"src">>
                       THEN [ud EXCEPT !.coords_src = meta.code,
                                       !.coords_src_label = meta.label]
                       ELSE [ud EXCEPT !.coords_dst = meta.code,
                                       !.coords_dst_label = meta.label]
             IN  Res(nu, "saved", kb_coords_main(nu))

\* ------------------------------------------------------------------------
\* on_button (bot.py 531-793)
\* ------------------------------------------------------------------------
\* coords:pick:<kind>:<crs_id> (bot.py 623-657)
cb_coords_pick(ud, data) ==
    LET parts  == split(data)
        kind   == parts[3]
        crs_id == parts[4]
        meta   == CRS_OPTIONS[crs_id]
    IN  IF Len(parts) # 4 THEN Res(ud, "pick not understood", kb_coords_main(ud))
        ELSE IF crs_id \notin DOMAIN CRS_OPTIONS
             THEN Res(ud, "unknown CRS", kb_coords_main(ud))
        ELSE IF meta.kind = <<"epsg">>
             THEN LET nu == IF kind = <<"src">>
                            THEN [ud EXCEPT !.coords_src = meta.code,
                                            !.coords_src_label = meta.label]
                            ELSE [ud EXCEPT !.coords_dst = meta.code,
                                            !.coords_dst_label = meta.label]
                  IN  Res(nu, "saved", kb_coords_main(nu))
        ELSE LET nu == [ud EXCEPT !.coords_zone_page = <<"1">>,
                                  !.awaiting_zone_kind = kind]
             IN  Res(nu, "choose zone", kb_coords_pick_zone(kind, <<"1">>))

\* coords:zone_page that stores the first zone of the page shown as the CRS
\* of the kind
cb_coords_zone_page_presets(ud, data) ==
    LET parts == split(data)
        last  == parts[Len(parts)]
        page  == IF last \in {<<"1">>, <<"2">>} THEN last ELSE <<"1">>
        kind  == IF ud.awaiting_zone_kind = None THEN <<"src">>
                 ELSE ud.awaiting_zone_kind
        epsg  == <<"EPSG:">> \o str(ZoneBase + (IF page = <<"1">> THEN 1 ELSE 31))
        nu    == IF kind = <<"src">>
                 THEN [ud EXCEPT !.coords_zone_page = page, !.coords_src = epsg]
                 ELSE [ud EXCEPT !.coords_zone_page = page, !.coords_dst = epsg]
    IN  Res(nu, "choose zone", kb_coords_pick_zone(kind, page))

\* coords:zone_page:<page> (bot.py 659-669)
cb_coords_zone_page(ud, data) ==
    LET parts == split(data)
        last  == parts[Len(parts)]
        page  == IF last \in {<<"1">>, <<"2">>} THEN last ELSE <<"1">>
        nu    == [ud EXCEPT !.coords_zone_page = page]
        kind  == IF ud.awaiting_zone_kind = None THEN <<"src">>
                 ELSE ud.awaiting_zone_kind
    IN  Res(nu, "choose zone", kb_coords_pick_zone(kind, page))

\* coords:zone that counts the zones from 0
cb_coords_zone_from_zero(ud, data) ==
    LET parts == split(data)
        kind  == parts[3]
        z     == int(parts[4])
        epsg  == <<"EPSG:">> \o str(ZoneBase + z.v - 1)
        label == <<"SK-42 GK zone ">> \o str(z.v)
    IN  IF Len(parts) # 4 THEN Res(ud, "zone not understood", kb_coords_main(ud))
        ELSE IF ~z.ok THEN Failed(ud)
        ELSE IF z.v < MinZone \/ z.v > MaxZone
             THEN Res(ud, "zone must be 1..60", kb_coords_main(ud))
        ELSE LET nu == IF kind = <<"src">>
                       THEN [ud EXCEPT !.coords_src = epsg,
                                       !.coords_src_label = label]
                       ELSE [ud EXCEPT !.coords_dst = epsg,
                                       !.coords_dst_label = label]
             IN  Res(nu, "zone saved", kb_coords_main(nu))

\* coords:zone that brings a zone out of range to the nearest one in range
cb_coords_zone_clamped(ud, data) ==
    LET parts == split(data)
        kind  == parts[3]
        z     == int(parts[4])
        zc    == IF z.v < MinZone THEN MinZone
                 ELSE IF z.v > MaxZone THEN MaxZone ELSE z.v
        epsg  == <<"EPSG:">> \o str(ZoneBase + zc)
        label == <<"SK-42 GK zone ">> \o str(zc)
    IN  IF Len(parts) # 4 THEN Res(ud, "zone not understood", kb_coords_main(ud))
        ELSE IF ~z.ok THEN Failed(ud)
        ELSE LET nu == IF kind = <<"src">>
                       THEN [ud EXCEPT !.coords_src = epsg,
                                       !.coords_src_label = label]
                       ELSE [ud EXCEPT !.coords_dst = epsg,
                                       !.coords_dst_label = label]
             IN  Res(nu, "zone saved", kb_coords_main(nu))

\* coords:zone that takes the kind from the zone sub-state, not from the data
cb_coords_zone_by_substate(ud, data) ==
    LET parts == split(data)
        kind  == ud.awaiting_zone_kind
        z     == int(parts[4])
        epsg  == <<"EPSG:">> \o str(ZoneBase + z.v)
        label == <<"SK-42 GK zone ">> \o str(z.v)
    IN  IF Len(parts) # 4 THEN Res(ud, "zone not understood", kb_coords_main(ud))
        ELSE IF ~z.ok THEN Failed(ud)
        ELSE IF z.v < MinZone \/ z.v > MaxZone
             THEN Res(ud, "zone must be 1..60", kb_coords_main(ud))
        ELSE LET nu == IF kind = <<"src">>
                       THEN [ud EXCEPT !.coords_src = epsg,
                                       !.coords_src_label = label]
                       ELSE [ud EXCEPT !.coords_dst = epsg,
                                       !.coords_dst_label = label]
             IN  Res(nu, "zone saved", kb_coords_main(nu))

\* coords:zone:<kind>:<z> (bot.py 671-694)
cb_coords_zone(ud, data) ==
    LET parts == split(data)
        kind  == parts[3]
        z     == int(parts[4])
        epsg  == <<"EPSG:">> \o str(ZoneBase + z.v)
        label == <<"SK-42 GK zone ">> \o str(z.v)
    IN  IF Len(parts) # 4 THEN Res(ud, "zone not understood", kb_coords_main(ud))
        ELSE IF ~z.ok THEN Failed(ud)
        ELSE IF z.v < MinZone \/ z.v > MaxZone
             THEN Res(ud, "zone must be 1..60", kb_coords_main(ud))
        ELSE LET nu == IF kind = <<"src">>
                       THEN [ud EXCEPT !.coords_src = epsg,
                                       !.coords_src_label = label]
                       ELSE [ud EXCEPT !.coords_dst = epsg,
                                       !.coords_dst_label = label]
             IN  Res(nu, "zone saved", kb_coords_main(nu))

\* coords:out that takes any mode other than csv for chat
cb_coords_out_defaults(ud, data) ==
    LET parts == split(data)
        mode  == IF parts[Len(parts)] = <<"csv">> THEN <<"csv">> ELSE <<"chat">>
        nu    == [ud EXCEPT
                    !.coords_out_mode = IF mode = <<"chat">>
                                        THEN <<"show in chat">>
                                        ELSE <<"CSV file">>,
                    !.coords_out_mode_code = mode]
    IN  Res(nu, "output saved", kb_coords_main(nu))

\* coords:out:<mode> (bot.py 700-708)
cb_coords_out(ud, data) ==
    LET parts == split(data)
        mode  == parts[Len(parts)]
    IN  IF mode \notin {<<"chat">>, <<"csv">>}
        THEN Res(ud, "output not understood", kb_coords_main(ud))
        ELSE LET nu == [ud EXCEPT
                          !.coords_out_mode = IF mode = <<"chat">>
                                              THEN <<"show in chat">>
                                              ELSE <<"CSV file">>,
                          !.coords_out_mode_code = mode]
             IN  Res(nu, "output saved", kb_coords_main(nu))

\* coords:ready with the check of the three settings left out
cb_coords_ready_ungated(ud) ==
    Res([ud EXCEPT !.awaiting = <<"coords_input">>], "settings ready",
        kb_coords_ready)

\* coords:ready that clears the awaiting marker when it refuses
cb_coords_ready_clears(ud) ==
    IF ~Truthy(ud.coords_src) \/ ~Truthy(ud.coords_dst)
         \/ ~Truthy(ud.coords_out_mode_code)
    THEN Res([ud EXCEPT !.awaiting = None],
             "choose source, destination and output", kb_coords_main(ud))
    ELSE Res([ud EXCEPT !.awaiting = <<"coords_input">>], "settings ready",
             kb_coords_ready)

\* coords:ready (bot.py 710-732)
cb_coords_ready(ud) ==
    IF ~Truthy(ud.coords_src) \/ ~Truthy(ud.coords_dst)
         \/ ~Truthy(ud.coords_out_mode_code)
    THEN Res(ud, "choose source, destination and output", kb_coords_main(ud))
    ELSE Res([ud EXCEPT !.awaiting = <<"coords_input">>], "settings ready",
             kb_coords_ready)

\* coords:manual, coords:file_help, coords:photo_help (bot.py 734-761)
cb_coords_input_mode(ud, data) ==
    IF data = <<"coords", ":", "manual">>
    THEN Res([ud EXCEPT !.awaiting = <<"coords_manual">>], "send coordinates",
             kb_coords_ready)
    ELSE IF data = <<"coords", ":", "file_help">>
    THEN Res([ud EXCEPT !.awaiting = <<"coords_file">>], "send file",
             kb_coords_ready)
    ELSE Res([ud EXCEPT !.awaiting = <<"coords_photo">>], "send photo",
             kb_coords_ready)

\* cad:manual, cad:photo_help, cad:file_help (bot.py 764-790)
cb_cad(ud, data) ==
    IF data = <<"cad", ":", "manual">>
    THEN Res([set_mode(ud, <<"cad_manual">>) EXCEPT !.awaiting = <<"cad_manual">>],
             "enter cadastral number", kb_nav(<<"land", ":", "cadnum">>))
    ELSE IF data = <<"cad", ":", "photo_help">>
    THEN Res([ud EXCEPT !.awaiting = <<"cad_photo">>], "send cadastral photo",
             kb_nav(<<"land", ":", "cadnum">>))
    ELSE Res([ud EXCEPT !.awaiting = <<"cad_file">>], "send cadastral file",
             kb_nav(<<"land", ":", "cadnum">>))

\* the whole dispatch, in the order of the code
on_button_result(ud, data) ==
    IF data = <<"nav", ":", "root">>
    THEN Res(set_mode(reset_coords_wizard(ud), <<"none">>), "choose section", kb_root)
    ELSE IF data \in {<<"nav", ":", "mine">>, <<"root", ":", "mine">>}
    THEN Res(set_mode(ud, <<"mine">>), "mine", kb_mine)
    ELSE IF data \in {<<"nav", ":", "land">>, <<"root", ":", "land">>}
    THEN Res(set_mode(ud, <<"land">>), "land", kb_land)
    ELSE IF data = <<"mine", ":", "coords">>
    THEN LET nu == set_mode(ud, <<"mine_coords">>)
         IN  Res(nu, "coords settings, choose first", kb_coords_main(nu))
    ELSE IF data \in {<<"mine", ":", "norms">>, <<"mine", ":", "report">>}
    THEN Res(ud, "in development", kb_nav(<<"nav", ":", "mine">>))
    ELSE IF data = <<"land", ":", "cadnum">>
    THEN Res(set_mode(ud, <<"land_cadnum">>), "cadastre", kb_land_cadnum)
    ELSE IF data = <<"land", ":", "norms">>
    THEN Res(ud, "in development", kb_nav(<<"nav", ":", "land">>))
    ELSE IF data = <<"coords", ":", "home">>
    THEN LET nu == set_mode(ud, <<"mine_coords">>)
         IN  Res(nu, "coords settings", kb_coords_main(nu))
    ELSE IF data = <<"coords", ":", "set_src">>
    THEN Res(ud, "choose source CRS", kb_coords_pick_crs(<<"src">>))
    ELSE IF data = <<"coords", ":", "set_dst">>
    THEN Res(ud, "choose destination CRS", kb_coords_pick_crs(<<"dst">>))
    ELSE IF startswith(data, <<"coords", ":", "pick", ":">>)
    THEN cb_coords_pick(ud, data)
    ELSE IF startswith(data, <<"coords", ":", "zone_page", ":">>)
    THEN cb_coords_zone_page(ud, data)
    ELSE IF startswith(data, <<"coords", ":", "zone", ":">>)
    THEN cb_coords_zone(ud, data)
    ELSE IF data = <<"coords", ":", "set_out">>
    THEN Res(ud, "choose output", kb_coords_pick_output)
    ELSE IF startswith(data, <<"coords", ":", "out", ":">>)
    THEN cb_coords_out(ud, data)
    ELSE IF data = <<"coords", ":", "ready">>
    THEN cb_coords_ready(ud)
    ELSE IF data \in {<<"coords", ":", "manual">>, <<"coords", ":", "file_help">>,
                      <<"coords", ":", "photo_help">>}
    THEN cb_coords_input_mode(ud, data)
    ELSE IF data \in {<<"cad", ":", "manual">>, <<"cad", ":", "photo_help">>,
                      <<"cad", ":", "file_help">>}
    THEN cb_cad(ud, data)
    ELSE Res(ud, "command not understood", kb_root)

\* ------------------------------------------------------------------------
\* Transform and rendering (bot.py 380-400, 951-984)
\* ------------------------------------------------------------------------
\* f"{x:.6f}": sign, integer part, point, six digits, rounded half to even
RECURSIVE ZeroPad(_, _)
ZeroPad(ds, width) == IF Len(ds) >= width THEN ds ELSE ZeroPad(<<"0">> \o ds, width)

Fmt6(q) ==
    LET a    == Abs(q[1])
        ip   == a \div q[2]
        sc   == (a % q[2]) * 1000000
        f    == sc \div q[2]
        rem  == sc % q[2]
        up   == 2 * rem > q[2] \/ (2 * rem = q[2] /\ f % 2 = 1)
        f2   == IF up THEN f + 1 ELSE f
        ip2  == IF f2 = 1000000 THEN ip + 1 ELSE ip
        f3   == IF f2 = 1000000 THEN 0 ELSE f2
    IN  (IF q[1] < 0 THEN <<"-">> ELSE <<>>) \o str(ip2) \o <<".">> \o ZeroPad(str(f3), 6)

\* the library's part of transform_points (pyproj, not in the repository):
\* whether both CRS resolve, the first point whose transform raises (0: none)
\* and the point returned by the i-th call of tr.transform
LibOutcome(crs_ok, fail_at, out) == [crs_ok |-> crs_ok, fail_at |-> fail_at, out |-> out]

\* transform_points that returns the points done so far when a call raises
transform_points_partial(points, src_code, dst_code, lib) ==
    IF ~lib.crs_ok THEN [ok |-> FALSE, out |-> <<>>, args |-> <<>>]
    ELSE IF lib.fail_at \in 1..Len(points)
    THEN [ok |-> TRUE, out |-> [i \in 1..(lib.fail_at - 1) |-> lib.out[i]],
          args |-> SubSeq(points, 1, lib.fail_at)]
    ELSE [ok |-> TRUE, out |-> [i \in 1..Len(points) |-> lib.out[i]],
          args |-> points]

\* transform_points that returns the answers last first
transform_points_reversed(points, src_code, dst_code, lib) ==
    IF ~lib.crs_ok THEN [ok |-> FALSE, out |-> <<>>, args |-> <<>>]
    ELSE IF lib.fail_at \in 1..Len(points)
    THEN [ok |-> FALSE, out |-> <<>>, args |-> SubSeq(points, 1, lib.fail_at)]
    ELSE [ok |-> TRUE,
          out |-> [i \in 1..Len(points) |-> lib.out[Len(points) + 1 - i]],
          args |-> points]

\* transform_points: raises as a whole, or returns one point per input point,
\* the i-th being the library's answer to the i-th call; args are the points
\* handed to the library, in call order
transform_points(points, src_code, dst_code, lib) ==
    IF ~lib.crs_ok THEN [ok |-> FALSE, out |-> <<>>, args |-> <<>>]
    ELSE IF lib.fail_at \in 1..Len(points)
    THEN [ok |-> FALSE, out |-> <<>>, args |-> SubSeq(points, 1, lib.fail_at)]
    ELSE [ok |-> TRUE, out |-> [i \in 1..Len(points) |-> lib.out[i]],
          args |-> points]

RECURSIVE TableLines(_, _)
TableLines(points, i) ==
    IF i > Len(points) THEN <<>>
    ELSE <<str(i) \o <<";">> \o Fmt6(points[i][1]) \o <<";">> \o Fmt6(points[i][2])>>
         \o TableLines(points, i + 1)

\* "\n".join(lines)
RECURSIVE join(_, _)
join(sep, lines) ==
    IF lines = <<>> THEN <<>>
    ELSE IF Len(lines) = 1 THEN lines[1]
    ELSE lines[1] \o sep \o join(sep, Tail(lines))

format_points_table(points) ==
    join(<<NL>>, <<(<<"N", ";", "X", ";", "Y">>)>> \o TableLines(points, 1))

BOM == "BOM"

\* csv.writer(delimiter=";").writerow: the fields joined by ";" and ended
\* by "\r\n" (no field of these rows needs quoting)
writerow(fields) == join(<<";">>, fields) \o <<"\r", NL>>

RECURSIVE CsvRows(_, _)
CsvRows(points, i) ==
    IF i > Len(points) THEN <<>>
    ELSE writerow(<<str(i), Fmt6(points[i][1]), Fmt6(points[i][2])>>)
         \o CsvRows(points, i + 1)

\* make_csv_bytes that writes the second coordinate before the first
make_csv_bytes_yx(points) ==
    <<BOM>> \o writerow(<<(<<"N">>), <<"X">>, <<"Y">>>>)
    \o CsvRows([i \in 1..Len(points) |-> <<points[i][2], points[i][1]>>], 1)

\* make_csv_bytes: utf-8-sig puts the byte-order mark first
make_csv_bytes(points) ==
    <<BOM>> \o writerow(<<(<<"N">>), <<"X">>, <<"Y">>>>) \o CsvRows(points, 1)

Letters == {"a", "b", "c", "d", "e", "m", "n", "o", "r", "s", "t", "v", "w", "x", "y",
            "N", "S", "E", "W", "X", "Y"}

\* \w of the regular expressions
WordChars == Letters \cup Digits \cup {"_"}

\* re.sub(r"[^\w\-.]", "_", filename_hint)
safe_name(hint) ==
    [i \in 1..Len(hint) |->
        IF hint[i] \in WordChars \cup {"-", "."} THEN hint[i] ELSE "_"]

\* one call of a collaborator, as seen from outside: what it was given, what
\* it answered and whether it raised
Call(fn, src, dst, out_mode, args, results, raised) ==
    [fn |-> fn, src |-> src, dst |-> dst, out_mode |-> out_mode,
     args |-> args, results |-> results, raised |-> raised]

\* the call of transform_points as seen from outside; t is its outcome
transform_call(ud, t, lib) ==
    Call("transform", ud.coords_src, ud.coords_dst, ud.coords_out_mode_code,
         t.args, lib.out, ~lib.crs_ok \/ lib.fail_at \in 1..Len(t.args))

\* do_transform_and_respond after the call of transform_points (bot.py 967-984)
respond(ud, t, filename_hint) ==
    IF ~t.ok
    THEN <<Msg("transform error", NoKb)>>
    ELSE IF ud.coords_out_mode_code = <<"chat">>
    THEN <<[Msg("result", kb_coords_ready) EXCEPT
              !.count = Len(t.out),
              !.rows = format_points_table(t.out)]>>
    ELSE <<[Msg("result file", kb_coords_ready) EXCEPT
              !.count = Len(t.out),
              !.rows = make_csv_bytes(t.out),
              !.filename = safe_name(filename_hint) \o <<"_converted.csv">>]>>

responded(ud, t, filename_hint, lib) ==
    [sent |-> respond(ud, t, filename_hint), calls |-> <<transform_call(ud, t, lib)>>]

\* do_transform_and_respond: the messages sent and the library call made
do_transform_and_respond(ud, points, filename_hint, lib) ==
    responded(ud, transform_points(points, ud.coords_src, ud.coords_dst, lib),
              filename_hint, lib)

\* ------------------------------------------------------------------------
\* Cadastral numbers (bot.py 90, 484-485)
\* ------------------------------------------------------------------------
\* CADNUM_RE = \b\d{2}:\d{2}:\d{6,7}:\d+\b : the end (exclusive) of the match
\* that starts at i, 0 if there is none
CADNUM_RE_match(s, i) ==
    LET e == RunEnd(s, i + 6, Digits)
        f == RunEnd(s, e + 1, Digits)
    IN  IF /\ i + 6 <= Len(s)
           /\ (i = 1 \/ s[i - 1] \notin WordChars)
           /\ s[i] \in Digits /\ s[i + 1] \in Digits /\ s[i + 2] = ":"
           /\ s[i + 3] \in Digits /\ s[i + 4] \in Digits /\ s[i + 5] = ":"
           /\ e - (i + 6) \in {6, 7}
           /\ e <= Len(s) /\ s[e] = ":"
           /\ f > e + 1
           /\ (f > Len(s) \/ s[f] \notin WordChars)
        THEN f ELSE 0

RECURSIVE CADNUM_RE_scan(_, _)
CADNUM_RE_scan(s, i) ==
    IF i > Len(s) THEN {}
    ELSE LET e == CADNUM_RE_match(s, i)
         IN  IF e = 0 THEN CADNUM_RE_scan(s, i + 1)
             ELSE {SubSeq(s, i, e - 1)} \cup CADNUM_RE_scan(s, e)

\* parse_cadnums_from_text: the set of the numbers found (the code sorts it)
parse_cadnums_from_text(text) == CADNUM_RE_scan(text, 1)

\* ------------------------------------------------------------------------
\* Usage store (bot.py 1039-1089)
\* ------------------------------------------------------------------------
DAILY_LIMIT == 20

\* usage.get(key, {}) of a user without a record: no date, nothing counted
NoUsage == [date |-> 0, count |-> 0, total |-> 0]

\* check_and_increment that refuses only above the limit
check_and_increment_above(us, day) ==
    LET user_data_ == IF us.date # day
                      THEN [date |-> day, count |-> 0, total |-> us.total]
                      ELSE us
        count      == user_data_.count
    IN  IF count > DAILY_LIMIT
        THEN [allowed |-> FALSE, used |-> count, us |-> us]
        ELSE [allowed |-> TRUE, used |-> count + 1,
              us |-> [user_data_ EXCEPT !.count = count + 1,
                                        !.total = us.total + 1]]

\* check_and_increment that counts a refused request in the total
check_and_increment_counts_refused(us, day) ==
    LET user_data_ == IF us.date # day
                      THEN [date |-> day, count |-> 0, total |-> us.total]
                      ELSE us
        count      == user_data_.count
    IN  IF count >= DAILY_LIMIT
        THEN [allowed |-> FALSE, used |-> count,
              us |-> [user_data_ EXCEPT !.total = us.total + 1]]
        ELSE [allowed |-> TRUE, used |-> count + 1,
              us |-> [user_data_ EXCEPT !.count = count + 1,
                                        !.total = us.total + 1]]

\* check_and_increment on the user's record: the verdict and the record saved
check_and_increment(us, day) ==
    LET user_data_ == IF us.date # day
                      THEN [date |-> day, count |-> 0, total |-> us.total]
                      ELSE us
        count      == user_data_.count
    IN  IF count >= DAILY_LIMIT
        THEN [allowed |-> FALSE, used |-> count, us |-> us]
        ELSE [allowed |-> TRUE, used |-> count + 1,
              us |-> [user_data_ EXCEPT !.count = count + 1,
                                        !.total = us.total + 1]]

get_usage(us, day) == IF us.date # day THEN 0 ELSE us.count

\* ------------------------------------------------------------------------
\* Expert chat (bot.py 988-1030)
\* ------------------------------------------------------------------------
\* the number of messages the history sent to the model is cut to
HistoryLimit == 20

\* history[-20:]
LastN(h, n) == IF Len(h) > n THEN SubSeq(h, Len(h) - n + 1, Len(h)) ELSE h

\* handle_expert_chat.  A stored chat_history is appended to in place, so the
\* user message stays in it when the model call fails, unless the history was
\* cut (a new list) or did not exist (a new list that is never stored).
handle_expert_chat(ud, us, day, llm_ok) ==
    LET c        == check_and_increment(us, day)
        stored   == ud.chat_history
        appended == IF stored = None THEN <<"user">> ELSE stored \o <<"user">>
        history  == LastN(appended, HistoryLimit)
        call     == Call("llm", None, None, None, history, <<>>, ~llm_ok)
    IN  IF ~c.allowed
        THEN [ud |-> ud, us |-> c.us, reg |-> TRUE, calls |-> <<>>,
              sent |-> <<Msg("daily limit reached", NoKb)>>]
        ELSE IF llm_ok
        THEN [ud |-> [ud EXCEPT !.chat_history = history \o <<"assistant">>],
              us |-> c.us, reg |-> TRUE, calls |-> <<call>>,
              sent |-> <<Msg("thinking", NoKb), Msg("answer", NoKb)>>]
        ELSE [ud |-> [ud EXCEPT !.chat_history =
                                   IF stored = None THEN None ELSE appended],
              us |-> c.us, reg |-> TRUE, calls |-> <<call>>,
              sent |-> <<Msg("thinking", NoKb), Msg("expert error", NoKb)>>]

\* ------------------------------------------------------------------------
\* Message handlers (bot.py 797-947)
\* ------------------------------------------------------------------------
\* the three settings a conversion needs are all present
ConfigComplete(ud) ==
    Truthy(ud.coords_src) /\ Truthy(ud.coords_dst) /\ Truthy(ud.coords_out_mode_code)

\* the result of a message handler that leaves the usage store alone
Out(ud, us, sent, calls) ==
    [ud |-> ud, us |-> us, reg |-> FALSE, calls |-> calls, sent |-> sent]

DefaultHint == <<"c", "o", "o", "r", "d", "s">>

\* a handler's result after do_transform_and_respond returned r, echo and
\* rcalls being what the handler sent and called before
Responded(ud, us, echo, rcalls, r) ==
    Out(ud, us, echo \o r.sent, rcalls \o r.calls)

\* the run of a parser on a text as seen from outside: fn is the parser, p
\* its outcome
parse_call(fn, text, p) == Call(fn, None, None, None, text, p.pts, ~p.ok)

\* handle_text that stops awaiting input once it has tried a conversion
text_points_once(ud, us, text, p, lib) ==
    IF ~p.ok
    THEN Out(ud, us, Failed(ud).sent, <<parse_call("parse_points_auto", text, p)>>)
    ELSE IF p.pts = <<>>
    THEN Out([ud EXCEPT !.awaiting = None], us, <<Msg("no coordinates seen", NoKb)>>,
             <<parse_call("parse_points_auto", text, p)>>)
    ELSE Responded([ud EXCEPT !.awaiting = None], us, <<>>,
                   <<parse_call("parse_points_auto", text, p)>>,
                   do_transform_and_respond(ud, p.pts, DefaultHint, lib))

\* handle_text from "pts = parse_points_auto(text)" on (bot.py 811-818)
text_points(ud, us, text, p, lib) ==
    IF ~p.ok
    THEN Out(ud, us, Failed(ud).sent, <<parse_call("parse_points_auto", text, p)>>)
    ELSE IF p.pts = <<>>
    THEN Out(ud, us, <<Msg("no coordinates seen", NoKb)>>,
             <<parse_call("parse_points_auto", text, p)>>)
    ELSE Responded(ud, us, <<>>, <<parse_call("parse_points_auto", text, p)>>,
                   do_transform_and_respond(ud, p.pts, DefaultHint, lib))

\* the settings a reply names as the ones to choose.  The reply of handle_text
\* to input that came too early is one fixed text, "choose the settings (CRS
\* and output format) first" (bot.py 807); the reply of handle_document
\* (bot.py 855) names no setting, and no other reply speaks of the settings.
settings_named(m) ==
    IF m.text = "choose settings first" /\ m.kb = kb_root
    THEN {"coords_src", "coords_dst", "coords_out_mode_code"}
    ELSE {}

\* handle_text with the check of the three settings left out
handle_text_ungated(ud, us, day, text, lib, llm_ok) ==
    IF ud.awaiting \in {<<"coords_input">>, <<"coords_manual">>}
    THEN text_points(ud, us, text, parse_points_auto(text), lib)
    ELSE IF ud.awaiting = <<"cad_manual">>
    THEN IF parse_cadnums_from_text(text) = {}
         THEN Out(ud, us, <<Msg("no cadastral number seen", NoKb)>>, <<>>)
         ELSE Out(ud, us, <<Msg("requesting cadastre", NoKb),
                            Msg("cadastre link", NoKb)>>, <<>>)
    ELSE handle_expert_chat(ud, us, day, llm_ok)

\* handle_text
handle_text_result(ud, us, day, text, lib, llm_ok) ==
    IF ud.awaiting \in {<<"coords_input">>, <<"coords_manual">>}
    THEN IF ~ConfigComplete(ud)
         THEN Out(ud, us, <<Msg("choose settings first", kb_root)>>, <<>>)
         ELSE text_points(ud, us, text, parse_points_auto(text), lib)
    ELSE IF ud.awaiting = <<"cad_manual">>
    THEN IF parse_cadnums_from_text(text) = {}
         THEN Out(ud, us, <<Msg("no cadastral number seen", NoKb)>>, <<>>)
         ELSE Out(ud, us, <<Msg("requesting cadastre", NoKb),
                            Msg("cadastre link", NoKb)>>, <<>>)
    ELSE handle_expert_chat(ud, us, day, llm_ok)

\* doc.file_size > 2 * 1024 * 1024
MaxFileSize == 2097152

\* handle_document from "pts = parse_points_from_text(text)" on (bot.py 872-878)
document_points(ud, us, doc, pts, lib) ==
    IF pts = <<>>
    THEN Out(ud, us, <<Msg("no coordinates in file", NoKb)>>,
             <<parse_call("parse_points_from_text", doc.text, Parsed(pts))>>)
    ELSE Responded(ud, us, <<>>,
                   <<parse_call("parse_points_from_text", doc.text, Parsed(pts))>>,
                   do_transform_and_respond(
                       ud, pts,
                       IF Truthy(doc.file_name) THEN doc.file_name ELSE DefaultHint,
                       lib))

\* handle_document; doc = [file_size, file_name, download_ok, decodable, text]
handle_document_result(ud, us, doc, lib) ==
    IF ud.awaiting # <<"coords_file">>
    THEN Out(ud, us, <<Msg("not waiting for a file", kb_root)>>, <<>>)
    ELSE IF ~ConfigComplete(ud)
    THEN Out(ud, us, <<Msg("choose settings first", NoKb)>>, <<>>)
    ELSE IF doc.file_size > MaxFileSize
    THEN Out(ud, us, <<Msg("file too big", NoKb)>>, <<>>)
    ELSE IF ~doc.download_ok THEN Out(ud, us, Failed(ud).sent, <<>>)
    ELSE IF ~doc.decodable
    THEN Out(ud, us, <<Msg("cannot read file", NoKb)>>, <<>>)
    ELSE document_points(ud, us, doc, parse_points_from_text(doc.text), lib)

\* has_doubt = "?" in recognized
has_doubt(recognized) == \E i \in 1..Len(recognized) : recognized[i] = "?"

\* the reply that shows what was recognized
photo_echo(doubtful, clear, recognized) ==
    [Msg(IF has_doubt(recognized) THEN doubtful ELSE clear, NoKb)
     EXCEPT !.quoted = recognized]

\* the recognition request, prompted by what the session awaits
recognize_call(ud, recognized, raised) ==
    Call("recognize", None, None, None, <<ud.awaiting>>, recognized, raised)

\* handle_photo that transforms what it recognized without looking for "?"
photo_points_ignores_doubt(ud, us, recognized, pts, lib) ==
    IF pts # <<>> /\ ConfigComplete(ud)
    THEN Responded(ud, us,
                   <<photo_echo("recognized, doubtful", "recognized, please check",
                                recognized)>>,
                   <<recognize_call(ud, recognized, FALSE),
                     parse_call("parse_points_from_text", recognized, Parsed(pts))>>,
                   do_transform_and_respond(ud, pts, DefaultHint, lib))
    ELSE Out(ud, us,
             <<photo_echo("recognized, doubtful", "recognized, please check",
                          recognized)>>,
             <<recognize_call(ud, recognized, FALSE),
               parse_call("parse_points_from_text", recognized, Parsed(pts))>>)

\* handle_photo from "pts = parse_points_from_text(recognized)" on
\* (bot.py 931-937)
photo_points(ud, us, recognized, pts, lib) ==
    IF pts # <<>> /\ ~has_doubt(recognized) /\ ConfigComplete(ud)
    THEN Responded(ud, us,
                   <<photo_echo("recognized, doubtful", "recognized, please check",
                                recognized)>>,
                   <<recognize_call(ud, recognized, FALSE),
                     parse_call("parse_points_from_text", recognized, Parsed(pts))>>,
                   do_transform_and_respond(ud, pts, DefaultHint, lib))
    ELSE Out(ud, us,
             <<photo_echo("recognized, doubtful", "recognized, please check",
                          recognized)>>,
             <<recognize_call(ud, recognized, FALSE),
               parse_call("parse_points_from_text", recognized, Parsed(pts))>>)

\* handle_photo that looks for "?" first and parses only a text without it
photo_recognized_checks_first(ud, us, recognized, lib) ==
    IF ud.awaiting = <<"coords_photo">> /\ has_doubt(recognized)
    THEN Out(ud, us,
             <<photo_echo("recognized, doubtful", "recognized, please check",
                          recognized)>>,
             <<recognize_call(ud, recognized, FALSE)>>)
    ELSE IF ud.awaiting = <<"coords_photo">>
    THEN photo_points(ud, us, recognized, parse_points_from_text(recognized), lib)
    ELSE Out(IF ~has_doubt(recognized) /\ parse_cadnums_from_text(recognized) # {}
             THEN [ud EXCEPT !.awaiting = <<"cad_manual">>] ELSE ud,
             us,
             <<photo_echo("recognized number, doubtful",
                          "recognized number, please check", recognized)>>,
             <<recognize_call(ud, recognized, FALSE)>>)

\* handle_photo after the recognition returned (bot.py 925-947)
photo_recognized(ud, us, recognized, lib) ==
    IF ud.awaiting = <<"coords_photo">>
    THEN photo_points(ud, us, recognized, parse_points_from_text(recognized), lib)
    ELSE Out(IF ~has_doubt(recognized) /\ parse_cadnums_from_text(recognized) # {}
             THEN [ud EXCEPT !.awaiting = <<"cad_manual">>] ELSE ud,
             us,
             <<photo_echo("recognized number, doubtful",
                          "recognized number, please check", recognized)>>,
             <<recognize_call(ud, recognized, FALSE)>>)

\* handle_photo; photo = [download_ok, recog_ok, text], text being what the
\* recognition call returns
handle_photo_result(ud, us, photo, lib) ==
    IF ud.awaiting \notin {<<"coords_photo">>, <<"cad_photo">>}
    THEN Out(ud, us, <<Msg("not waiting for a photo", kb_root)>>, <<>>)
    ELSE IF ~photo.download_ok THEN Out(ud, us, Failed(ud).sent, <<>>)
    ELSE IF ~photo.recog_ok
    THEN Out(ud, us, <<Msg("recognition error", NoKb)>>,
             <<recognize_call(ud, <<>>, TRUE)>>)
    ELSE photo_recognized(ud, us, strip(photo.text), lib)

\* ------------------------------------------------------------------------
\* Commands (bot.py 489-528)
\* ------------------------------------------------------------------------
start_result(ud) ==
    Res(set_mode(reset_coords_wizard(ud), <<"none">>), "greeting", kb_root)

menu_result(ud) ==
    Res(set_mode(reset_coords_wizard(ud), <<"none">>), "menu", kb_root)

\* reset_command that also resets the wizard
reset_command_clears_wizard(ud) ==
    Res([reset_coords_wizard(ud) EXCEPT !.chat_history = None],
        "history cleared", kb_root)

\* reset_command: context.user_data.pop("chat_history", None)
reset_command_result(ud) ==
    Res([ud EXCEPT !.chat_history = None], "history cleared", kb_root)

\* usage_command: the reply states used and limit - used
usage_command_result(ud, us, day) ==
    [ud |-> ud,
     sent |-> <<[Msg("usage", NoKb) EXCEPT
                   !.count = get_usage(us, day),
                   !.rows = str(DAILY_LIMIT - get_usage(us, day))]>>]

\* ------------------------------------------------------------------------
\* State
\* ------------------------------------------------------------------------
VARIABLES
    user_data,  \* context.user_data of every user session
    usage,      \* usage.json: the record of every user
    users,      \* users.json: the registered users
    today,      \* date.today()
    actor,      \* the user whose update the last handler served (0: none yet)
    update,     \* that update: the handler it went to and what it carried
    sent,       \* the messages the last handler sent
    calls,      \* the collaborator calls the last handler made
    app,        \* the Application: the updates that wait to be served and
                \* the update whose handler is inside a collaborator call
    seen_docs   \* seen_docs.json: the ids of the documents announced

vars == <<user_data, usage, users, today, actor, update, sent, calls, app, seen_docs>>

Users == {1, 2}

Init ==
    /\ user_data = [u \in Users |-> EmptyUserData]
    /\ usage = [u \in Users |-> NoUsage]
    /\ users = {}
    /\ today = 1
    /\ actor = 0
    /\ update = [kind |-> "none", data |-> <<>>]
    /\ sent = <<>>
    /\ calls = <<>>
    /\ app = [update_queue |-> <<>>, in_call |-> <<>>]
    /\ seen_docs = {}

\* a handler's effect when every session shares one user_data
Effect_shared(u, ud, out, made) ==
    /\ user_data' = [v \in Users |-> ud]
    /\ actor' = u
    /\ sent' = out
    /\ calls' = made

\* a handler's effect on the session of u and on what the outside sees
Effect(u, ud, out, made) ==
    /\ user_data' = [user_data EXCEPT ![u] = ud]
    /\ actor' = u
    /\ sent' = out
    /\ calls' = made

\* the update the handler is serving
Handling(kind, data) == update' = [kind |-> kind, data |-> data]

\* register_user (bot.py 1107-1111)
register_user(u) == users' = users \cup {u}

\* ------------------------------------------------------------------------
\* Handlers as actions (bot.py 1266-1275)
\* ------------------------------------------------------------------------
\* the effect of a handler whose result r is a session and the messages sent
Reply(u, r) == Effect(u, r.ud, r.sent, <<>>)

start(u) ==
    /\ Handling("start", <<>>)
    /\ Reply(u, start_result(user_data[u]))
    /\ register_user(u)
    /\ UNCHANGED <<usage, today, app, seen_docs>>

menu(u) ==
    /\ Handling("menu", <<>>)
    /\ Reply(u, menu_result(user_data[u]))
    /\ UNCHANGED <<usage, users, today, app, seen_docs>>

help_command(u) ==
    /\ Handling("help", <<>>)
    /\ Effect(u, user_data[u], <<Msg("help", NoKb)>>, <<>>)
    /\ UNCHANGED <<usage, users, today, app, seen_docs>>

usage_command(u) ==
    /\ Handling("usage", <<>>)
    /\ Reply(u, usage_command_result(user_data[u], usage[u], today))
    /\ UNCHANGED <<usage, users, today, app, seen_docs>>

reset_command(u) ==
    /\ Handling("reset", <<>>)
    /\ Reply(u, reset_command_result(user_data[u]))
    /\ UNCHANGED <<usage, users, today, app, seen_docs>>

on_button(u, data) ==
    /\ Handling("callback", data)
    /\ Reply(u, on_button_result(user_data[u], data))
    /\ UNCHANGED <<usage, users, today, app, seen_docs>>

\* the points the transform library answers with
LibPoints ==
    {<<(<<1, 2>>), <<-7, 4>>>>, <<(<<1, 128>>), <<3, 1>>>>}

\* the outcomes the transform library can have on a batch of n points: the
\* CRS do not resolve; or call k raises after k - 1 answers; or every call
\* is answered
LibOutcomes(n) ==
    {LibOutcome(FALSE, 0, <<>>)}
    \cup UNION {{LibOutcome(TRUE, k, o) : o \in [1..(k - 1) -> LibPoints]} : k \in 1..n}
    \cup {LibOutcome(TRUE, 0, o) : o \in [1..n -> LibPoints]}

\* the effect of a message handler's result r
Apply(u, r) ==
    /\ Effect(u, r.ud, r.sent, r.calls)
    /\ usage' = [usage EXCEPT ![u] = r.us]
    /\ users' = IF r.reg THEN users \cup {u} ELSE users
    /\ UNCHANGED <<today, app, seen_docs>>

\* the number of points a handler passes to the transform (0: no call), the
\* number of library calls the outcome has to answer
TextBatch(ud, text) ==
    IF ud.awaiting \in {<<"coords_input">>, <<"coords_manual">>} /\ ConfigComplete(ud)
    THEN Len(parse_points_auto(text).pts) ELSE 0

DocBatch(ud, doc) ==
    IF ud.awaiting = <<"coords_file">> /\ ConfigComplete(ud)
       /\ doc.file_size <= MaxFileSize /\ doc.download_ok /\ doc.decodable
    THEN Len(parse_points_from_text(doc.text)) ELSE 0

PhotoBatch(ud, photo) ==
    IF ud.awaiting = <<"coords_photo">> /\ ConfigComplete(ud)
       /\ photo.download_ok /\ photo.recog_ok /\ ~has_doubt(strip(photo.text))
    THEN Len(parse_points_from_text(strip(photo.text))) ELSE 0

\* whether a text message ends in the expert chat
GoesToChat(ud) ==
    ud.awaiting \notin {<<"coords_input">>, <<"coords_manual">>, <<"cad_manual">>}

handle_text(u, text) ==
    \E lib \in LibOutcomes(TextBatch(user_data[u], text)),
       llm_ok \in IF GoesToChat(user_data[u]) THEN BOOLEAN ELSE {TRUE} :
        /\ Handling("text", text)
        /\ Apply(u, handle_text_result(user_data[u], usage[u], today, text, lib, llm_ok))

handle_document(u, doc) ==
    \E lib \in LibOutcomes(DocBatch(user_data[u], doc)) :
        /\ Handling("document", doc)
        /\ Apply(u, handle_document_result(user_data[u], usage[u], doc, lib))

handle_photo(u, photo) ==
    \E lib \in LibOutcomes(PhotoBatch(user_data[u], photo)) :
        /\ Handling("photo", photo)
        /\ Apply(u, handle_photo_result(user_data[u], usage[u], photo, lib))

\* ------------------------------------------------------------------------
\* Inputs of the single-session specification
\* ------------------------------------------------------------------------
Cb(a, b) == <<a, ":", b>>

Cb4(a, b, c, d) == <<a, ":", b, ":", c, ":">> \o d

\* the callback data pressed: buttons of the keyboards and hand-made data
SpecCallbacks ==
    {Cb("nav", "root"), Cb("nav", "mine"), Cb("mine", "coords"),
     Cb4("coords", "pick", "src", <<"wgs84">>),
     Cb4("coords", "pick", "dst", <<"sk42gk">>),
     Cb4("coords", "zone", "src", <<"1">>),
     Cb4("coords", "zone", "dst", <<"6", "0">>),
     Cb4("coords", "zone", "src", <<"0">>),
     Cb4("coords", "zone", "dst", <<"6", "1">>),
     Cb4("coords", "zone", "src", <<"6", "5">>),
     <<"coords", ":", "out", ":", "chat">>,
     <<"coords", ":", "out", ":", "csv">>,
     Cb("coords", "ready"), Cb("coords", "manual"),
     Cb("coords", "file_help"), Cb("coords", "photo_help")}

\* the texts of the typed messages, the files and the recognized photographs
Txt ==
    [ One |->
          <<"1", " ", "2">>,
      Two |->
          <<"1", ",", "5", " ", "2", NL, "3", " ", "-", "4">>,
      Doubt |->
          <<"1", " ", "2", "?">>,
      None |->
          <<"a">>,
      \* one line of two angles in degrees, minutes and seconds
      Dms |->
          <<"1", " ", "3", "0", " ", "0", " ", "2", " ", "1", "5", " ", "0">>,
      \* a cadastral number
      Cad |->
          <<"1", "1", ":", "2", "2", ":", "3", "3", "3", "3", "3", "3", ":", "4">>,
      \* one number per line, six lines: no line holds a point
      Column |->
          <<"1", NL, "2", NL, "3", NL, "4", NL, "5", NL, "6">> ]

Doc(size, name, dl, dec, text) ==
    [file_size |-> size, file_name |-> name, download_ok |-> dl,
     decodable |-> dec, text |-> text]

SpecDocs ==
    {Doc(10, <<"a", " ", "b", ".", "t">>, TRUE, TRUE, Txt.Two),
     Doc(1, None, TRUE, TRUE, Txt.None),
     Doc(1, None, TRUE, TRUE, Txt.Dms)}

Photo(dl, ok, text) == [download_ok |-> dl, recog_ok |-> ok, text |-> text]

SpecPhotos ==
    {Photo(TRUE, TRUE, Txt.One), Photo(TRUE, TRUE, Txt.Doubt), Photo(TRUE, FALSE, Txt.One),
     Photo(TRUE, TRUE, Txt.None)}

\* the session the single-session specification follows
SpecUsers == {1}

\* the number of expert-chat requests the specification follows
MaxChats == 1

Next ==
    \E u \in SpecUsers :
        \/ start(u)
        \/ menu(u)
        \/ help_command(u)
        \/ usage_command(u)
        \/ reset_command(u)
        \/ \E data \in SpecCallbacks : on_button(u, data)
        \/ \E text \in {Txt.One, Txt.Two, Txt.None} :
              /\ ~GoesToChat(user_data[u])
              /\ handle_text(u, text)
        \* the questions put to the expert chat, which does not look into them
        \/ \E text \in {Txt.None} :
              /\ GoesToChat(user_data[u])
              /\ usage[u].total < MaxChats
              /\ handle_text(u, text)
        \/ \E doc \in SpecDocs : handle_document(u, doc)
        \/ \E photo \in SpecPhotos : handle_photo(u, photo)

Spec == Init /\ [][Next]_vars

\* ------------------------------------------------------------------------
\* The notation parsers on their own
\* ------------------------------------------------------------------------
\* the lines a raw text is made of
Line ==
    \* two angles without marks, the first line of the spec's mixed example
    [ Dms |->
          <<"7", "7", " ", "0", "5", " ", "2", "8", " ", "6", "3", " ", "1", "3", " ", "4", "4">>,
      \* two decimal numbers, its second line
      Dec |->
          <<"7", "7", ".", "1", " ", "6", "3", ".", "2">>,
      \* two angles with hemisphere letters
      Hemi |->
          <<"4", "0", " ", "3", "0", " ", "0", " ", "N", " ", "9", " ", "1", "5", " ", "0", " ", "w">>,
      \* an angle of minus zero degrees
      MinusZero |->
          <<"-", "0", " ", "3", "0", " ", "0", " ", "1", "0", " ", "0", " ", "0">>,
      \* three angles
      Three |->
          <<"1", " ", "2", " ", "3", " ", "4", " ", "5", " ", "6", " ", "7", " ", "8", " ", "9">>,
      \* three numbers that make one angle only
      Index |->
          <<"1", " ", "2", " ", "3">>,
      \* one number
      One |->
          <<"5">>,
      \* decimal commas and a sign
      Comma |->
          <<"1", ",", "5", " ", "-", "2", ",", "2", "5">>,
      \* signs that stand alone
      Signs |->
          <<"+", " ", "8", " ", "-", " ", "9">>,
      \* white space only
      Blank |->
          <<" ">>,
      \* an angle whose seconds are a lone point
      BadSec |->
          <<"1", " ", "2", " ", ".", " ", "4", " ", "5", " ", "6">>,
      \* two angles with degree, minute and second marks
      Marks |->
          <<"7", DEG, "5", "'", "2", "8", "\"", " ", "6", "3", DEG, "1", "3", "'", "4", "4", "\"">>,
      \* a mark but no angle
      MarkDec |->
          <<"1", "m", " ", "2">> ]

\* the number of lines of the raw texts
MaxLines == 2

\* the texts of n lines
RECURSIVE TextsOf(_)
TextsOf(n) ==
    IF n = 1 THEN {Line[k] : k \in DOMAIN Line} \cup {Txt.None}
    ELSE {t \o <<NL>> \o l : t \in TextsOf(n - 1),
                              l \in {Line[k] : k \in DOMAIN Line} \cup {Txt.None}}

ParserTexts == UNION {TextsOf(n) : n \in 1..MaxLines} \cup {Txt.Column}

\* a raw text is drawn; no session exists
ParserInit ==
    /\ user_data = [u \in Users |-> EmptyUserData]
    /\ usage = [u \in Users |-> NoUsage]
    /\ users = {}
    /\ today = 1
    /\ actor = 0
    /\ \E t \in ParserTexts : update = [kind |-> "raw text", data |-> t]
    /\ sent = <<>>
    /\ calls = <<>>
    /\ app = [update_queue |-> <<>>, in_call |-> <<>>]
    /\ seen_docs = {}

\* a parser is run on the raw text
run_parse_dms_line ==
    /\ calls' = <<parse_call("parse_dms_line", update.data,
                             parse_dms_line(update.data))>>
    /\ UNCHANGED <<user_data, usage, users, today, actor, update, sent, app, seen_docs>>

run_parse_points_auto ==
    /\ calls' = <<parse_call("parse_points_auto", update.data,
                             parse_points_auto(update.data))>>
    /\ UNCHANGED <<user_data, usage, users, today, actor, update, sent, app, seen_docs>>

run_parse_points_from_text ==
    /\ calls' = <<parse_call("parse_points_from_text", update.data,
                             Parsed(parse_points_from_text(update.data)))>>
    /\ UNCHANGED <<user_data, usage, users, today, actor, update, sent, app, seen_docs>>

ParserNext ==
    \/ run_parse_dms_line
    \/ run_parse_points_auto
    \/ run_parse_points_from_text

ParserSpec == ParserInit /\ [][ParserNext]_vars

\* ------------------------------------------------------------------------
\* The handlers in the event loop (bot.py 1263-1285)
\* ------------------------------------------------------------------------
\* the updates the two users send (an update: the user it comes from, the
\* handler it goes to, what it carries): the first sets up conversions and sends
\* photographs, the second picks a source CRS of its own and asks the expert
LoopUpdates ==
    {[user |-> 1, kind |-> "callback", data |-> d] :
        d \in {Cb4("coords", "pick", "src", <<"wgs84">>),
               Cb4("coords", "pick", "dst", <<"merc">>),
               <<"coords", ":", "out", ":", "chat">>,
               Cb("coords", "photo_help"), Cb("cad", "photo_help"),
               Cb("nav", "root")}}
    \cup {[user |-> 1, kind |-> "photo", data |-> Photo(TRUE, TRUE, t)] :
             t \in {Txt.One, Txt.Cad}}
    \cup {[user |-> 2, kind |-> "callback",
           data |-> Cb4("coords", "pick", "src", <<"merc">>)],
          [user |-> 2, kind |-> "menu", data |-> <<>>],
          [user |-> 2, kind |-> "text", data |-> Txt.None]}

\* the number of updates that can wait to be served
MaxQueue == 1

\* a user sends an update; it waits in app.update_queue (run_polling)
send(upd) ==
    /\ Len(app.update_queue) < MaxQueue
    \* the expert-chat requests that wait or are being served count as made
    /\ upd.kind = "text" =>
          usage[upd.user].total
          + Cardinality({i \in DOMAIN app.update_queue :
                            /\ app.update_queue[i].user = upd.user
                            /\ app.update_queue[i].kind = "text"})
          + Cardinality({i \in DOMAIN app.in_call :
                            /\ app.in_call[i].user = upd.user
                            /\ app.in_call[i].kind = "text"})
          < MaxChats
    /\ app' = [app EXCEPT !.update_queue = Append(@, upd)]
    /\ UNCHANGED <<user_data, usage, users, today, actor, update, sent, calls,
                   seen_docs>>

\* whether the handler of upd comes to a call of client.messages.create: the
\* recognition request of handle_photo (bot.py 907) or the question put by
\* handle_expert_chat (bot.py 1013)
reaches_call(ud, us, day, upd) ==
    IF upd.kind = "photo"
    THEN ud.awaiting \in {<<"coords_photo">>, <<"cad_photo">>} /\ upd.data.download_ok
    ELSE upd.kind = "text" /\ GoesToChat(ud) /\ check_and_increment(us, day).allowed

\* what the handler registered for upd does
update_result(ud, us, day, upd, lib, llm_ok) ==
    IF upd.kind = "menu"
    THEN Out(menu_result(ud).ud, us, menu_result(ud).sent, <<>>)
    ELSE IF upd.kind = "callback"
    THEN Out(on_button_result(ud, upd.data).ud, us,
             on_button_result(ud, upd.data).sent, <<>>)
    ELSE IF upd.kind = "text"
    THEN handle_text_result(ud, us, day, upd.data, lib, llm_ok)
    ELSE handle_photo_result(ud, us, upd.data, lib)

\* the handler of upd runs to its end; the transform library answers for as
\* many points as the handler passes to it
finish(upd) ==
    \E lib \in LibOutcomes(IF upd.kind = "photo"
                           THEN PhotoBatch(user_data[upd.user], upd.data)
                           ELSE IF upd.kind = "text"
                           THEN TextBatch(user_data[upd.user], upd.data)
                           ELSE 0),
       llm_ok \in IF upd.kind = "text" /\ GoesToChat(user_data[upd.user])
                  THEN BOOLEAN ELSE {TRUE} :
        LET r == update_result(user_data[upd.user], usage[upd.user], today,
                               upd, lib, llm_ok)
        IN  /\ Handling(upd.kind, upd.data)
            /\ Effect(upd.user, r.ud, r.sent, r.calls)
            /\ usage' = [usage EXCEPT ![upd.user] = r.us]
            /\ users' = IF r.reg THEN users \cup {upd.user} ELSE users
            /\ UNCHANGED <<today, seen_docs>>

\* the Application takes the next waiting update and awaits its handler.  A
\* handler that comes to client.messages.create stays inside that call: the
\* client is the synchronous one (bot.py 53) and the call is not awaited, so
\* the thread of the event loop is in the call until it returns.  What the
\* handler did before the call is recorded when the call returns; nothing
\* else runs in between.
process_update ==
    /\ app.in_call = <<>>
    /\ app.update_queue # <<>>
    /\ IF reaches_call(user_data[Head(app.update_queue).user],
                       usage[Head(app.update_queue).user], today,
                       Head(app.update_queue))
       THEN /\ app' = [update_queue |-> Tail(app.update_queue),
                       in_call |-> <<Head(app.update_queue)>>]
            /\ Handling(Head(app.update_queue).kind, Head(app.update_queue).data)
            /\ actor' = Head(app.update_queue).user
            /\ sent' = <<>>
            /\ calls' = <<>>
            /\ UNCHANGED <<user_data, usage, users, today, seen_docs>>
       ELSE /\ app' = [app EXCEPT !.update_queue = Tail(@)]
            /\ finish(Head(app.update_queue))

\* client.messages.create returns or raises and the handler runs to its end
call_returns ==
    /\ app.in_call # <<>>
    /\ app' = [app EXCEPT !.in_call = <<>>]
    /\ finish(app.in_call[1])

LoopNext ==
    \/ \E upd \in LoopUpdates : send(upd)
    \/ process_update
    \/ call_returns

LoopSpec == Init /\ [][LoopNext]_vars

\* ------------------------------------------------------------------------
\* The expert chat over the days (bot.py 988-1089)
\* ------------------------------------------------------------------------
\* the number of days followed
MaxDay == 2

\* the number of requests of a day, counted from its first, that the
\* language model may fail to answer
MaxFailures == 1

\* date.today() changes
midnight ==
    /\ today < MaxDay
    /\ today' = today + 1
    /\ UNCHANGED <<user_data, usage, users, actor, update, sent, calls, app, seen_docs>>

\* a user who awaits nothing sends a text: handle_text passes it to the
\* expert chat.  The first user asks as often as the limit lets it, the
\* other users MaxChats times.  Any user asks for its usage at any time.
UsageNext ==
    \/ \E u \in Users, llm_ok \in BOOLEAN :
          /\ u \in SpecUsers \/ usage[u].total < MaxChats
          /\ llm_ok \/ get_usage(usage[u], today) < MaxFailures
          /\ Handling("text", Txt.None)
          /\ Apply(u, handle_text_result(user_data[u], usage[u], today, Txt.None,
                                         LibOutcome(FALSE, 0, <<>>), llm_ok))
    \/ \E u \in Users : usage_command(u)
    \/ midnight

UsageSpec == Init /\ [][UsageNext]_vars

\* ------------------------------------------------------------------------
\* The settings dialogue on its own (bot.py 623-732)
\* ------------------------------------------------------------------------
\* the buttons of the settings dialogue and of the cadastre section, and
\* hand-made data: an unknown catalog key, wrong numbers of fields, zones
\* out of range and an unknown output mode
WizardCallbacks ==
    {Cb("nav", "root"), Cb("mine", "coords"), Cb("cad", "manual"),
     Cb4("coords", "pick", "src", <<"wgs84">>),
     Cb4("coords", "pick", "dst", <<"merc">>),
     Cb4("coords", "pick", "src", <<"sk42gk">>),
     Cb4("coords", "pick", "dst", <<"sk42gk">>),
     <<"coords", ":", "zone_page", ":", "1">>,
     <<"coords", ":", "zone_page", ":", "2">>,
     Cb4("coords", "zone", "src", <<"7">>),
     Cb4("coords", "zone", "dst", <<"3", "1">>),
     Cb4("coords", "zone", "src", <<"0">>),
     Cb4("coords", "zone", "dst", <<"6", "1">>),
     <<"coords", ":", "out", ":", "chat">>,
     <<"coords", ":", "out", ":", "csv">>,
     Cb("coords", "ready"),
     Cb4("coords", "pick", "src", <<"utm">>),
     <<"coords", ":", "pick", ":", "src">>,
     <<"coords", ":", "pick", ":", "dst", ":", "merc", ":", "x">>,
     <<"coords", ":", "zone", ":", "7">>,
     <<"coords", ":", "zone", ":", "dst", ":", "7", ":", "1">>,
     <<"coords", ":", "out", ":", "xml">>}

WizardNext == \E u \in SpecUsers, data \in WizardCallbacks : on_button(u, data)

WizardSpec == Init /\ [][WizardNext]_vars

\* ------------------------------------------------------------------------
\* The monitor of regulatory documents (bot.py 1113-1249)
\* ------------------------------------------------------------------------
\* the regions in the order check_nd_updates asks for them
ND_REGIONS == <<"0", "89", "51">>

\* the number of documents the fetches of one cycle return, all in all
MaxResults == 2

\* what the fetches of one cycle return, in the order of the two loops: each
\* document with the index of the region it was asked for.  A document has
\* an id ("": none) and a day of publication (0: none); a fetch that fails
\* returns nothing.
FetchResults ==
    {r \in UNION {[1..n -> {[id |-> "", date |-> 1], [id |-> "a", date |-> 1],
                            [id |-> "a", date |-> 2], [id |-> "b", date |-> 1],
                            [id |-> "b", date |-> 0]}
                           \X (1..Len(ND_REGIONS))] : n \in 0..MaxResults} :
        \A i \in 1..(Len(r) - 1) : r[i][2] <= r[i + 1][2]}

\* is_doc_fresh: the document was published on the day
is_doc_fresh(doc, day) == doc.date # 0 /\ doc.date = day

\* the loops of check_nd_updates when a document is compared with the seen
\* set as it was loaded only, and the ids are added at the end
RECURSIVE scan_results_loaded_only(_, _, _)
scan_results_loaded_only(seen, results, day) ==
    IF results = <<>> THEN [seen |-> seen, new_docs |-> <<>>]
    ELSE IF Head(results)[1].id # "" /\ Head(results)[1].id \notin seen
            /\ is_doc_fresh(Head(results)[1], day)
    THEN [seen |-> scan_results_loaded_only(seen, Tail(results), day).seen
                      \cup {Head(results)[1].id},
          new_docs |-> <<[doc |-> Head(results)[1],
                          region |-> ND_REGIONS[Head(results)[2]]]>>
                       \o scan_results_loaded_only(seen, Tail(results), day).new_docs]
    ELSE scan_results_loaded_only(seen, Tail(results), day)

\* the loops of check_nd_updates over what was fetched: the seen set and the
\* list new_docs they end with
RECURSIVE scan_results(_, _, _)
scan_results(seen, results, day) ==
    IF results = <<>> THEN [seen |-> seen, new_docs |-> <<>>]
    ELSE IF Head(results)[1].id # "" /\ Head(results)[1].id \notin seen
            /\ is_doc_fresh(Head(results)[1], day)
    THEN [scan_results(seen \cup {Head(results)[1].id}, Tail(results), day)
          EXCEPT !.new_docs = <<[doc |-> Head(results)[1],
                                 region |-> ND_REGIONS[Head(results)[2]]]>> \o @]
    ELSE scan_results(seen, Tail(results), day)

\* the users a notification is sent to, one after the other
RECURSIVE Recipients(_)
Recipients(us) ==
    IF us = {} THEN <<>>
    ELSE LET u == CHOOSE v \in us : \A w \in us : v <= w
         IN  <<u>> \o Recipients(us \ {u})

\* the messages of the sending loop: for every new document, one to every
\* user
RECURSIVE notifications(_, _)
notifications(new_docs, us) ==
    IF new_docs = <<>> THEN <<>>
    ELSE [i \in 1..Len(Recipients(us)) |->
             [chat_id |-> Recipients(us)[i], text |-> "new document",
              doc_id |-> Head(new_docs).doc.id,
              region |-> Head(new_docs).region]]
         \o notifications(Tail(new_docs), us)

\* one cycle of nd_monitor_loop: check_nd_updates loads the seen set, scans
\* what it fetched, saves the seen set when there is a new document and
\* sends the notifications to the registered users (sent holds the calls of
\* send_message, whether or not the message arrives)
check_nd_updates ==
    \E results \in FetchResults :
        /\ update' = [kind |-> "nd check", data |-> results]
        /\ actor' = 0
        /\ seen_docs' = IF scan_results(seen_docs, results, today).new_docs = <<>>
                        THEN seen_docs
                        ELSE scan_results(seen_docs, results, today).seen
        /\ sent' = IF users = {} THEN <<>>
                   ELSE notifications(
                            scan_results(seen_docs, results, today).new_docs,
                            users)
        /\ calls' = <<>>
        /\ UNCHANGED <<user_data, usage, users, today, app>>

\* the monitor runs its cycles while users register and the days pass
MonitorNext ==
    \/ check_nd_updates
    \/ \E u \in Users : start(u)
    \/ midnight

MonitorSpec == Init /\ [][MonitorNext]_vars

\* ------------------------------------------------------------------------
\* Properties of the wizard
\* ------------------------------------------------------------------------
\* the session the last update belonged to
Session == user_data[actor]

\* the calls of transform_points the last handler made
TransformCalls == {i \in 1..Len(calls) : calls[i].fn = "transform"}

Unset(v) == v = None \/ v = <<>>

\* some of source CRS, destination CRS and output mode is unset in ud
SomeUnset(ud) ==
    Unset(ud.coords_src) \/ Unset(ud.coords_dst) \/ Unset(ud.coords_out_mode_code)

\* C1: a message handled while source CRS, destination CRS or output mode
\* of the session is unset makes no call of the transform, and a text that
\* arrives then while coordinates are awaited is answered by the request to
\* choose the settings and changes nothing, whether or not it parses.
C1_WizardGating ==
    [][\A u \in Users :
          (actor' = u /\ update'.kind \in {"text", "document", "photo"}
             /\ SomeUnset(user_data[u]))
          => /\ \A i \in 1..Len(calls') : calls'[i].fn # "transform"
             /\ (update'.kind = "text"
                   /\ user_data[u].awaiting \in {<<"coords_input">>, <<"coords_manual">>})
                => /\ sent' = <<Msg("choose settings first", kb_root)>>
                   /\ user_data'[u] = user_data[u]]_vars

\* a text that parses was sent while coordinates were awaited with the
\* settings incomplete, and was turned down
C1_Witness ==
    /\ update.kind = "text"
    /\ update.data = Txt.One
    /\ parse_points_auto(update.data).pts # <<>>
    /\ Session.awaiting = <<"coords_manual">>
    /\ SomeUnset(Session)
    /\ sent = <<Msg("choose settings first", kb_root)>>
    /\ calls = <<>>

CoordsAwaiting ==
    {<<"coords_input">>, <<"coords_manual">>, <<"coords_file">>, <<"coords_photo">>}

\* C2 as claimed: in every reachable state a session that awaits coordinate
\* input (coords_input, coords_manual, coords_file or coords_photo) has
\* source CRS, destination CRS and output mode set.
C2_AwaitingImpliesConfigured ==
    \A u \in Users :
        user_data[u].awaiting \in CoordsAwaiting => ~SomeUnset(user_data[u])

\* C2, amended: a session that awaits coords_input, the state the READY
\* step enters, has source CRS, destination CRS and output mode set.
C2_ReadyImpliesConfigured ==
    \A u \in Users :
        user_data[u].awaiting = <<"coords_input">> => ~SomeUnset(user_data[u])

\* the READY step was taken with the three settings chosen
C2_Witness ==
    /\ update.kind = "callback"
    /\ update.data = Cb("coords", "ready")
    /\ Session.awaiting = <<"coords_input">>
    /\ ~SomeUnset(Session)
    /\ sent = <<Msg("settings ready", kb_coords_ready)>>

\* every field of the wizard is unset in ud
WizardUnset(ud) ==
    /\ ud.coords_src = None /\ ud.coords_dst = None
    /\ ud.coords_src_label = None /\ ud.coords_dst_label = None
    /\ ud.coords_out_mode = None /\ ud.coords_out_mode_code = None
    /\ ud.coords_zone_page = None /\ ud.awaiting_zone_kind = None
    /\ ud.awaiting = None

\* the last update was the return to the top menu
ReturnedToTop ==
    \/ update.kind \in {"start", "menu"}
    \/ update.kind = "callback" /\ update.data = Cb("nav", "root")

\* C3: after the nav:root button, /menu or /start, whatever the state
\* before, source CRS, destination CRS, output mode, their labels, the zone
\* sub-state and the awaiting marker of the session are all unset.
C3_ReturnToTopResets == ReturnedToTop => WizardUnset(Session)

\* nav:root was pressed in a session that holds a chat history
C3_Witness ==
    /\ update.kind = "callback"
    /\ update.data = Cb("nav", "root")
    /\ WizardUnset(Session)
    /\ Session.mode = <<"none">>
    /\ Session.chat_history # None

\* C4 as claimed: after /reset no wizard configuration field (source CRS,
\* destination CRS, output mode) and no awaiting marker of the session
\* remains set.
C4_ResetClearsSession ==
    update.kind = "reset"
    => /\ Session.coords_src = None /\ Session.coords_dst = None
       /\ Session.coords_out_mode_code = None
       /\ Session.awaiting = None

\* C4, amended: /reset removes the chat history of the session and leaves
\* every other field, the wizard configuration and the awaiting marker
\* among them, as it was.
C4_ResetClearsHistoryOnly ==
    [][\A u \in Users :
          (actor' = u /\ update'.kind = "reset")
          => user_data' = [user_data EXCEPT ![u].chat_history = None]]_vars

\* /reset was handled in a session that had used the chat, with the wizard
\* configured and input awaited
C4_Witness ==
    /\ update.kind = "reset"
    /\ usage[actor].total > 0
    /\ Session.chat_history = None
    /\ ~SomeUnset(Session)
    /\ Session.awaiting = <<"coords_input">>

\* C5 as claimed: whenever mine:coords is handled, source CRS, destination
\* CRS and output mode of the session are unset.
C5_EmptyOnEntry ==
    (update.kind = "callback" /\ update.data = Cb("mine", "coords"))
    => /\ Session.coords_src = None /\ Session.coords_dst = None
       /\ Session.coords_out_mode_code = None

\* the text contains the placeholder character
HasPlaceholder(text) == \E i \in 1..Len(text) : text[i] = "?"

\* C6: a photo whose recognized text contains "?" leads to no call of the
\* transform, even with the settings complete and a point in the rest of the
\* text; the one message sent quotes the text back.
C6_UncertaintyGating ==
    (update.kind = "photo" /\ update.data.download_ok /\ update.data.recog_ok
       /\ HasPlaceholder(update.data.text))
    => /\ TransformCalls = {}
       /\ Len(sent) = 1
       /\ sent[1].quoted # <<>> => HasPlaceholder(sent[1].quoted)
       /\ sent[1].rows = <<>>

\* a photo read as "1 2?" arrived with the settings complete and was only
\* quoted back
C6_Witness ==
    /\ update.kind = "photo"
    /\ update.data = Photo(TRUE, TRUE, Txt.Doubt)
    /\ Session.awaiting = <<"coords_photo">>
    /\ ~SomeUnset(Session)
    /\ parse_points_from_text(update.data.text) # <<>>
    /\ TransformCalls = {}
    /\ Len(sent) = 1
    /\ sent[1].quoted = Txt.Doubt

\* the message is a rendered result: it states a count, or carries rows or
\* a file
Rendered(m) == m.count # 0 \/ m.rows # <<>> \/ m.filename # <<>>

\* C7: when the transform raises, for a CRS that does not resolve or at any
\* point of the batch, nothing is rendered for any point and the handler
\* ends with the error message.
C7_AllOrNothing ==
    \A i \in TransformCalls :
        calls[i].raised
        => /\ \A j \in 1..Len(sent) : ~Rendered(sent[j])
           /\ sent[Len(sent)] = Msg("transform error", NoKb)

\* the second point of a batch of two made the library raise
C7_Witness ==
    /\ update.kind = "text"
    /\ update.data = Txt.Two
    /\ \E i \in TransformCalls :
          /\ calls[i].raised
          /\ Len(calls[i].args) = 2
          /\ Len(calls[i].results) = 1
    /\ sent = <<Msg("transform error", NoKb)>>

\* the points the handler parsed from the last update
ParsedInput ==
    IF update.kind = "text" THEN parse_points_auto(update.data).pts
    ELSE IF update.kind = "document" THEN parse_points_from_text(update.data.text)
    ELSE parse_points_from_text(strip(update.data.text))

\* the line without its final carriage return
Chomp(line) ==
    IF line # <<>> /\ line[Len(line)] = "\r" THEN SubSeq(line, 1, Len(line) - 1)
    ELSE line

\* the data rows of a result message: the lines of the table, or of the file
\* after its byte-order mark, without the header line
DataRows(m) ==
    IF m.filename = <<>> THEN Tail(splitlines(m.rows))
    ELSE Tail(splitlines(Tail(m.rows)))

\* the row that shows point pt under index k
RowOf(k, pt) == str(k) \o <<";">> \o Fmt6(pt[1]) \o <<";">> \o Fmt6(pt[2])

\* C8: when a batch of N >= 1 parsed points transforms, the points went to
\* the library in the order parsed, and the table or file sent has exactly N
\* data rows, row i carrying index i and the library's answer for point i.
C8_OrderPreserved ==
    \A i \in TransformCalls :
        (~calls[i].raised /\ Len(calls[i].args) >= 1)
        => /\ calls[i].args = ParsedInput
           /\ Len(calls[i].results) = Len(calls[i].args)
           /\ sent[Len(sent)].count = Len(calls[i].args)
           /\ Len(DataRows(sent[Len(sent)])) = Len(calls[i].args)
           /\ \A k \in 1..Len(calls[i].args) :
                 Chomp(DataRows(sent[Len(sent)])[k]) = RowOf(k, calls[i].results[k])

\* two points were sent as text and came back as two different rows
C8_Witness ==
    /\ update.kind = "text"
    /\ update.data = Txt.Two
    /\ \E i \in TransformCalls :
          /\ ~calls[i].raised
          /\ Len(calls[i].args) = 2
          /\ calls[i].results[1] # calls[i].results[2]
    /\ Len(DataRows(sent[1])) = 2
    /\ DataRows(sent[1])[1] # DataRows(sent[1])[2]

\* callback data of the form coords:zone:<kind>:<number>
IsZoneChoice(upd) ==
    /\ upd.kind = "callback"
    /\ Len(upd.data) >= 7
    /\ SubSeq(upd.data, 1, 4) = <<"coords", ":", "zone", ":">>
    /\ upd.data[5] \in {"src", "dst"}
    /\ upd.data[6] = ":"
    /\ \A i \in 7..Len(upd.data) : upd.data[i] \in Digits

\* the zone number the data names
ZoneOf(upd) == DigitsVal(SubSeq(upd.data, 7, Len(upd.data)))

\* the last Len(t) characters of s are t
EndsWith(s, t) ==
    Len(s) >= Len(t) /\ SubSeq(s, Len(s) - Len(t) + 1, Len(s)) = t

\* C9: after zone z, 1 <= z <= 60, was chosen for source (destination), the
\* source (destination) CRS of the session is EPSG:(28400 + z) and its label
\* ends with z.
C9_ZoneStored ==
    (IsZoneChoice(update) /\ ZoneOf(update) \in 1..60)
    => IF update.data[5] = "src"
       THEN /\ Session.coords_src = <<"EPSG:">> \o str(28400 + ZoneOf(update))
            /\ EndsWith(Session.coords_src_label, str(ZoneOf(update)))
       ELSE /\ Session.coords_dst = <<"EPSG:">> \o str(28400 + ZoneOf(update))
            /\ EndsWith(Session.coords_dst_label, str(ZoneOf(update)))

\* zone 60 was chosen for the destination: EPSG:28460
C9_Witness ==
    /\ IsZoneChoice(update)
    /\ ZoneOf(update) = 60
    /\ update.data[5] = "dst"
    /\ Session.coords_dst = <<"EPSG:", "2", "8", "4", "6", "0">>
    /\ sent[1].text = "zone saved"

\* C10: a zone choice with a number outside 1..60 is answered by the range
\* message and leaves every session as it was: no CRS, label or output mode
\* changes, and no zone is stored in place of the one asked for.
C10_ZoneOutOfRange ==
    [][(IsZoneChoice(update') /\ ZoneOf(update') \notin 1..60)
       => /\ user_data' = user_data
          /\ sent'[1].text = "zone must be 1..60"]_vars

\* zone 65 was asked for as source in a session whose source was chosen:
\* the source is still the one chosen
C10_Witness ==
    /\ IsZoneChoice(update)
    /\ ZoneOf(update) = 65
    /\ update.data[5] = "src"
    /\ Session.coords_src = <<"EPSG:", "4", "3", "2", "6">>
    /\ sent[1].text = "zone must be 1..60"


\* the identifiers of the catalog that name one CRS: the two fixed ones and
\* the sixty zones of the zoned family
ResolvedCodes ==
    {<<"EPSG:", "4", "3", "2", "6">>, <<"EPSG:", "3", "8", "5", "7">>}
    \cup {<<"EPSG:">> \o str(28400 + z) : z \in 1..60}

\* C11: in every reachable state a stored source or destination CRS is
\* EPSG:4326, EPSG:3857 or EPSG:(28400 + z) with z in 1..60, never the empty
\* code of the zoned family, and every call of the transform is made with
\* two such identifiers.
C11_StoredCrsResolved ==
    /\ \A u \in Users :
          /\ user_data[u].coords_src \in ResolvedCodes \cup {None}
          /\ user_data[u].coords_dst \in ResolvedCodes \cup {None}
    /\ \A i \in TransformCalls :
          /\ calls[i].src \in ResolvedCodes
          /\ calls[i].dst \in ResolvedCodes

\* the zoned family was picked as destination: its zones are offered and no
\* destination is stored yet
C11_Witness ==
    /\ update.kind = "callback"
    /\ update.data = Cb4("coords", "pick", "dst", <<"sk42gk">>)
    /\ Session.awaiting_zone_kind = <<"dst">>
    /\ Session.coords_dst = None
    /\ Session.coords_src = <<"EPSG:", "4", "3", "2", "6">>
    /\ sent[1].kb = kb_coords_pick_zone(<<"dst">>, <<"1">>)

\* the settings of ud that are unset
UnsetFields(ud) ==
    {f \in {"coords_src", "coords_dst", "coords_out_mode_code"} : Unset(ud[f])}

\* the last update was coordinate input on the channel its session awaited
CoordinateInput ==
    \/ update.kind = "text"
         /\ Session.awaiting \in {<<"coords_input">>, <<"coords_manual">>}
    \/ update.kind = "document" /\ Session.awaiting = <<"coords_file">>
    \/ update.kind = "photo" /\ Session.awaiting = <<"coords_photo">>

\* C12 as claimed: coordinate input that arrives while a setting is unset is
\* answered by one reply that names exactly the unset settings, and nothing
\* else is done: no recognition, no parsing, no transform.
C12_GateReportsMissing ==
    (CoordinateInput /\ SomeUnset(Session))
    => /\ calls = <<>>
       /\ Len(sent) = 1
       /\ settings_named(sent[1]) = UnsetFields(Session)

\* the runs of a point parser the last handler made
ParseCalls ==
    {i \in 1..Len(calls) :
        calls[i].fn \in {"parse_points_auto", "parse_points_from_text"}}

\* C13 as claimed: when the parser returns no point for a batch that arrived
\* with the settings complete (and, for a photo, without a placeholder), the
\* handler ends with the reply that no coordinates were recognized, calls no
\* transform and renders nothing.
C13_ParseFailureReported ==
    \A i \in ParseCalls :
        (~calls[i].raised /\ calls[i].results = <<>> /\ ~HasPlaceholder(calls[i].args)
           /\ ~SomeUnset(Session))
        => /\ TransformCalls = {}
           /\ \A j \in 1..Len(sent) : ~Rendered(sent[j])
           /\ sent[Len(sent)].text \in {"no coordinates seen", "no coordinates in file"}

\* C14 as claimed: whatever channel a raw text arrives on, the points parsed
\* from it are the ones the parser of typed text, parse_points_auto, finds
\* in it.
C14_SameParserOnEveryChannel ==
    \A i \in ParseCalls :
        update.kind \in {"text", "document", "photo"}
        => /\ ~calls[i].raised
           /\ calls[i].results = parse_points_auto(calls[i].args).pts

DoubtfulPhoto ==
    /\ update.kind = "photo"
    /\ update.data.download_ok /\ update.data.recog_ok
    /\ Session.awaiting = <<"coords_photo">>
    /\ HasPlaceholder(strip(update.data.text))

RunsOf(fn) == {i \in 1..Len(calls) : calls[i].fn = fn}

NonBlank(line) == line # <<>>

StrippedLines(ls) == [k \in 1..Len(ls) |-> strip(ls[k])]

\* the lines of a text that hold more than white space, without the white
\* space around them
Lines(t) == SelectSeq(StrippedLines(splitlines(t)), NonBlank)

\* the numeric tokens and the angle groups of a line
Tokens(line) == NUM_RE_findall(line)

Groups(line) == DMS_LINE_RE_findall(line)

\* the line carries a degree, minute or second mark
Marked(line) == \E k \in 1..Len(line) : line[k] \in {DEG, "'", "\"", "d", "m", "s"}

\* the token without its sign
Unsigned(tok) == IF tok # <<>> /\ tok[1] \in {"-", "+"} THEN Tail(tok) ELSE tok

\* the token is a decimal number: digits, at most one separator among them,
\* at least one digit
IsNumber(tok) ==
    /\ \A k \in 1..Len(tok) : tok[k] \in Digits \cup {".", ","}
    /\ Cardinality({k \in 1..Len(tok) : tok[k] \in {".", ","}}) <= 1
    /\ \E k \in 1..Len(tok) : tok[k] \in Digits

\* the magnitude of such a token as a fraction in lowest terms
Magnitude(tok) ==
    Rat(DigitsVal(SelectSeq(tok, LAMBDA c : c \in Digits)),
        Pow10(Len(tok) - RunEnd(tok, 1, Digits)
              + (IF RunEnd(tok, 1, Digits) > Len(tok) THEN 1 ELSE 0)))

\* the value of a numeric token, "." or "," being the decimal separator
TokenValue(tok) ==
    IF tok[1] = "-" THEN RatNeg(Magnitude(Unsigned(tok))) ELSE Magnitude(Unsigned(tok))

\* the first two numeric tokens of the line as a point
PlainPoint(line) == <<TokenValue(Tokens(line)[1]), TokenValue(Tokens(line)[2])>>

\* C16 as claimed: parse_dms_line gives a point only for a line with exactly
\* two angle groups; a line with another number of groups, three among them,
\* gives no DMS point and is read by its first two numeric tokens.
C16_ExactlyTwoGroups ==
    /\ \A i \in RunsOf("parse_dms_line") :
          (~calls[i].raised /\ Len(Groups(calls[i].args)) # 2)
          => calls[i].results = <<>>
    /\ \A i \in RunsOf("parse_points_auto") :
          (~calls[i].raised /\ Len(Lines(calls[i].args)) = 1
             /\ Len(Groups(Lines(calls[i].args)[1])) # 2
             /\ Len(Tokens(Lines(calls[i].args)[1])) >= 2)
          => calls[i].results = <<PlainPoint(Lines(calls[i].args)[1])>>

\* |d| + m / 60 + s / 3600 of an angle group <<d, m, s, hemisphere>>
AngleMagnitude(g) ==
    Rat((DigitsVal(Unsigned(g[1])) * 3600 + DigitsVal(g[2]) * 60) * Magnitude(g[3])[2]
          + Magnitude(g[3])[1],
        3600 * Magnitude(g[3])[2])

\* the degree token carries a minus sign or the letter is South or West
Negated(g) == g[1][1] = "-" \/ g[4] \in {<<"S">>, <<"s">>, <<"W">>, <<"w">>}

\* the decimal degrees the group stands for
AngleValue(g) ==
    IF Negated(g) THEN RatNeg(AngleMagnitude(g)) ELSE AngleMagnitude(g)

\* C17 as claimed: each of the two angles parse_dms_line converts has the
\* magnitude |d| + m / 60 + s / 3600 and is negative exactly when its degree
\* token carries a minus sign, whatever the degrees, or its letter is S or W.
C17_DmsValue ==
    \A i \in RunsOf("parse_dms_line") :
        (~calls[i].raised /\ calls[i].results # <<>>)
        => calls[i].results[1] = <<AngleValue(Groups(calls[i].args)[1]),
                                   AngleValue(Groups(calls[i].args)[2])>>

\* the line is one for the DMS notation: marks or three numeric tokens, and
\* two angle groups
DmsLine(line) ==
    /\ Marked(line) \/ Len(Tokens(line)) >= 3
    /\ Len(Groups(line)) = 2

\* the line is two bare numbers
PlainLine(line) == ~Marked(line) /\ Len(Tokens(line)) = 2

\* dms_to_dd has a value for both groups of the line
Converts(line) == dms_group(Groups(line)[1]).ok /\ dms_group(Groups(line)[2]).ok

\* the point of the line under its own notation
ByNotation(line) ==
    IF DmsLine(line)
    THEN <<dms_group(Groups(line)[1]).v, dms_group(Groups(line)[2]).v>>
    ELSE PlainPoint(line)

\* C18: in a text made of DMS lines (marks or at least three numeric tokens,
\* two angle groups) and of lines of exactly two bare numbers, every line
\* gives one point, in order: a DMS line the conversion of its two groups,
\* never its first two tokens, a two-number line its two numbers, whatever
\* the other lines are.  When a group of a DMS line has no value the parser
\* raises; it does not fall back to the tokens of that line.
C18_DmsBeforeDecimal ==
    \A i \in RunsOf("parse_points_auto") :
        (/\ Lines(calls[i].args) # <<>>
         /\ \A k \in 1..Len(Lines(calls[i].args)) :
               DmsLine(Lines(calls[i].args)[k]) \/ PlainLine(Lines(calls[i].args)[k]))
        => IF \E k \in 1..Len(Lines(calls[i].args)) :
                 DmsLine(Lines(calls[i].args)[k]) /\ ~Converts(Lines(calls[i].args)[k])
           THEN calls[i].raised
           ELSE /\ ~calls[i].raised
                /\ calls[i].results =
                      [k \in 1..Len(Lines(calls[i].args)) |->
                          ByNotation(Lines(calls[i].args)[k])]
                /\ \A k \in 1..Len(Lines(calls[i].args)) :
                      DmsLine(Lines(calls[i].args)[k])
                      => calls[i].results[k] # PlainPoint(Lines(calls[i].args)[k])

\* the mixed example: "77 05 28 63 13 44" then "77.1 63.2" gave the angles
\* 77.0911.. and 63.2288.. first and the pair (77.1, 63.2) second
C18_Witness ==
    \E i \in RunsOf("parse_points_auto") :
        /\ calls[i].args = Line.Dms \o <<NL>> \o Line.Dec
        /\ calls[i].results = <<(<<(<<34691, 450>>), <<28453, 450>>>>),
                                (<<(<<771, 10>>), <<316, 5>>>>)>>

\* the DMS step gives no point for the line: it is not tried, or it finds
\* fewer than two angle groups
FallbackLine(line) ==
    ~(/\ Marked(line) \/ Len(Tokens(line)) >= 3
      /\ Len(Groups(line)) >= 2)

\* the points of lines read by their first two numeric tokens, a line with
\* fewer than two tokens giving none
RECURSIVE DecimalPoints(_)
DecimalPoints(ls) ==
    IF ls = <<>> THEN <<>>
    ELSE (IF Len(Tokens(Head(ls))) >= 2 THEN <<PlainPoint(Head(ls))>> ELSE <<>>)
         \o DecimalPoints(Tail(ls))

\* C19: a numeric token always holds a digit, a sign alone is none; and in
\* a text whose lines all get no point from the DMS step, the points are
\* those of the lines with two numeric tokens or more, each the values of
\* the line's first two tokens with "." or "," as decimal separator, while a
\* line with fewer tokens adds nothing.
C19_DecimalFallback ==
    \A i \in RunsOf("parse_points_auto") :
        /\ \A k \in 1..Len(Lines(calls[i].args)) :
              \A j \in 1..Len(Tokens(Lines(calls[i].args)[k])) :
                  \E c \in 1..Len(Tokens(Lines(calls[i].args)[k])[j]) :
                      Tokens(Lines(calls[i].args)[k])[j][c] \in Digits
        /\ (/\ \A k \in 1..Len(Lines(calls[i].args)) :
                  FallbackLine(Lines(calls[i].args)[k])
            /\ DecimalPoints(Lines(calls[i].args)) # <<>>)
           => /\ ~calls[i].raised
              /\ calls[i].results = DecimalPoints(Lines(calls[i].args))

\* "5" then "1,5 -2,25": the first line gave nothing, the second the point
\* (1.5, -2.25)
C19_Witness ==
    \E i \in RunsOf("parse_points_auto") :
        /\ calls[i].args = Line.One \o <<NL>> \o Line.Comma
        /\ calls[i].results = <<(<<(<<3, 2>>), <<-9, 4>>>>)>>

\* C20 as claimed: parse_points_auto never fails on a text: a line without
\* a point is passed over.  It gives at most one point per line that holds
\* more than white space, and when no line can hold a point (fewer than two
\* numeric tokens on each) the scan of the whole text adds at most one.
C20_LinesSkippedNeverFailed ==
    \A i \in RunsOf("parse_points_auto") :
        /\ ~calls[i].raised
        /\ Len(calls[i].results) <= Len(Lines(calls[i].args))
        /\ (\A k \in 1..Len(Lines(calls[i].args)) :
               Len(Tokens(Lines(calls[i].args)[k])) < 2)
           => Len(calls[i].results) <= 1

\* ------------------------------------------------------------------------
\* Properties of the sessions in the event loop
\* ------------------------------------------------------------------------
\* the user whose update a step of the Application serves: the one whose
\* handler is inside a call, else the one whose update waits first
Served ==
    IF app.in_call # <<>> THEN app.in_call[1].user
    ELSE IF app.update_queue # <<>> THEN Head(app.update_queue).user
    ELSE 0

\* a step in which a handler runs, not one in which an update arrives
HandlerStep ==
    /\ app' # app
    /\ Len(app'.update_queue) <= Len(app.update_queue)

\* what a session has configured and what it awaits
Configuration(ud) ==
    <<ud.coords_src, ud.coords_dst, ud.coords_src_label, ud.coords_dst_label,
      ud.coords_out_mode, ud.coords_out_mode_code,
      ud.coords_zone_page, ud.awaiting_zone_kind, ud.awaiting>>

\* C21: sessions are private.  A step that serves an update of one user
\* leaves the configuration, the zone sub-state and the awaiting marker of
\* every other user as they were, and an arriving update changes no session;
\* every transform a handler calls is given the source, the destination and
\* the output mode of the session served, and its reply is the table or the
\* file as that session's output mode says.
C21_SessionsPrivate ==
    [][/\ \A v \in Users :
             (~HandlerStep \/ v # Served)
                => Configuration(user_data'[v]) = Configuration(user_data[v])
       /\ HandlerStep =>
             \A i \in DOMAIN calls' :
                 calls'[i].fn = "transform" =>
                     /\ calls'[i].src = user_data[Served].coords_src
                     /\ calls'[i].dst = user_data[Served].coords_dst
                     /\ calls'[i].out_mode = user_data[Served].coords_out_mode_code
                     /\ \A k \in DOMAIN sent' :
                            sent'[k].text = "result"
                               => user_data[Served].coords_out_mode_code = <<"chat">>]_vars

\* user 1 converted WGS84 to WebMercator while user 2 had chosen WebMercator
\* as its own source and nothing else
C21_Witness ==
    /\ actor = 1
    /\ \E i \in DOMAIN calls :
          /\ calls[i].fn = "transform"
          /\ calls[i].src = CRS_OPTIONS[<<"wgs84">>].code
    /\ \E k \in DOMAIN sent : sent[k].text = "result"
    /\ user_data[2].coords_src = CRS_OPTIONS[<<"merc">>].code
    /\ user_data[2].coords_dst = None
    /\ user_data[1].coords_dst = CRS_OPTIONS[<<"merc">>].code

\* the updates that return to the top menu
ReturnToMenu(upd) ==
    \/ upd.kind = "menu"
    \/ upd.kind = "callback" /\ upd.data = Cb("nav", "root")

\* the recognition call of a photograph is outstanding and its user has sent
\* a return to the menu since
MenuDuringRecognition ==
    /\ app.in_call # <<>>
    /\ app.in_call[1].kind = "photo"
    /\ \E i \in DOMAIN app.update_queue :
          /\ app.update_queue[i].user = app.in_call[1].user
          /\ ReturnToMenu(app.update_queue[i])

\* C22 as claimed: when the recognition call returns after its user has sent
\* a return to the menu, the photo handler discards what was recognized: it
\* calls no transform and changes nothing of the session's configuration,
\* zone sub-state and awaiting marker.
C22_ResultDiscardedAfterMenu ==
    [][(MenuDuringRecognition /\ app'.in_call = <<>>)
          => /\ \A i \in DOMAIN calls' : calls'[i].fn # "transform"
             /\ \A k \in DOMAIN sent' : sent'[k].text # "result"
             /\ Configuration(user_data'[Served]) = Configuration(user_data[Served])]_vars

\* a handler is inside client.messages.create and the update that waits
\* first is one of another user
OtherUserWaits ==
    /\ app.in_call # <<>>
    /\ app.update_queue # <<>>
    /\ Head(app.update_queue).user # app.in_call[1].user

\* C23 as claimed: a collaborator call does not hold up the other sessions.
\* While the recognition or language-model call of one user is outstanding,
\* the waiting update of another user can be served.
C23_OtherSessionsNotBlocked == OtherUserWaits => ENABLED process_update

\* ------------------------------------------------------------------------
\* Properties of the output
\* ------------------------------------------------------------------------
\* the fields of a row, which ";" separates
RECURSIVE FieldsOf(_)
FieldsOf(row) ==
    IF \E i \in 1..Len(row) : row[i] = ";"
    THEN LET i == CHOOSE i \in 1..Len(row) :
                      row[i] = ";" /\ \A j \in 1..(i - 1) : row[j] # ";"
         IN  <<SubSeq(row, 1, i - 1)>> \o FieldsOf(SubSeq(row, i + 1, Len(row)))
    ELSE <<row>>

\* the rows of the inline table, header first, each as its fields
TableRows(table) ==
    [k \in 1..Len(splitlines(table)) |-> FieldsOf(splitlines(table)[k])]

\* the rows of the file after its byte-order mark, header first, each as its
\* fields
FileRows(bytes) ==
    [k \in 1..Len(splitlines(Tail(bytes))) |->
        FieldsOf(Chomp(splitlines(Tail(bytes))[k]))]

\* C24: the file and the inline table carry the same rows.  For every list
\* of points a transform returned, the rows of the file are, field for field
\* and in order, the rows of the table: the header N;X;Y, then one row per
\* point with its index from 1 and both coordinates with six digits after
\* the point; the file begins with the byte-order mark.  The result is sent
\* as the table when the output mode is 'chat' and as the file when it is
\* 'csv'.
C24_SameRowsInBothOutputs ==
    \A i \in TransformCalls :
        ~calls[i].raised
        => /\ FileRows(make_csv_bytes(calls[i].results))
                = TableRows(format_points_table(calls[i].results))
           /\ Len(TableRows(format_points_table(calls[i].results)))
                = Len(calls[i].results) + 1
           /\ TableRows(format_points_table(calls[i].results))[1]
                = <<(<<"N">>), <<"X">>, <<"Y">>>>
           /\ \A k \in 1..Len(calls[i].results) :
                 TableRows(format_points_table(calls[i].results))[k + 1]
                    = <<str(k), Fmt6(calls[i].results[k][1]),
                        Fmt6(calls[i].results[k][2])>>
           /\ make_csv_bytes(calls[i].results)[1] = BOM
           /\ calls[i].out_mode \in {<<"chat">>, <<"csv">>}
           /\ calls[i].out_mode = <<"chat">>
                 => /\ sent[Len(sent)].text = "result"
                    /\ sent[Len(sent)].filename = <<>>
                    /\ sent[Len(sent)].rows = format_points_table(calls[i].results)
           /\ calls[i].out_mode = <<"csv">>
                 => /\ sent[Len(sent)].text = "result file"
                    /\ sent[Len(sent)].filename # <<>>
                    /\ sent[Len(sent)].rows = make_csv_bytes(calls[i].results)

\* a file of two different rows was sent
C24_Witness ==
    /\ \E i \in TransformCalls :
          /\ ~calls[i].raised
          /\ calls[i].out_mode = <<"csv">>
          /\ Len(calls[i].results) = 2
          /\ calls[i].results[1] # calls[i].results[2]
          /\ calls[i].results[1][1] # calls[i].results[1][2]
    /\ sent[Len(sent)].text = "result file"
    /\ Len(FileRows(sent[Len(sent)].rows)) = 3

\* the name hint the handler of the last update passes on: the name of the
\* uploaded file if it has one, "coords" otherwise
FilenameHint ==
    IF update.kind = "document" /\ Truthy(update.data.file_name)
    THEN update.data.file_name
    ELSE DefaultHint

\* letters and digits
Alphanumeric == Letters \cup Digits

\* C25 as claimed: the name of the file sent is the hint with every
\* character that is not alphanumeric replaced by "_", followed by
\* "_converted.csv"; before that suffix it holds only alphanumeric
\* characters and "_".
C25_FilenameSanitized ==
    \A k \in DOMAIN sent :
        sent[k].filename # <<>>
        => /\ Len(sent[k].filename) = Len(FilenameHint) + 1
           /\ sent[k].filename[Len(sent[k].filename)] = "_converted.csv"
           /\ \A i \in 1..Len(FilenameHint) :
                 /\ sent[k].filename[i] \in Alphanumeric \cup {"_"}
                 /\ sent[k].filename[i] =
                       IF FilenameHint[i] \in Alphanumeric THEN FilenameHint[i]
                       ELSE "_"

\* ------------------------------------------------------------------------
\* Properties of the wizard's steps
\* ------------------------------------------------------------------------
\* the step is the handling of input by a session that is set up and awaits
\* that input: a conversion attempt
ConversionAttempt ==
    /\ actor' \in Users
    /\ ConfigComplete(user_data[actor'])
    /\ \/ /\ update'.kind = "text"
          /\ user_data[actor'].awaiting \in {<<"coords_input">>, <<"coords_manual">>}
       \/ /\ update'.kind = "document"
          /\ user_data[actor'].awaiting = <<"coords_file">>
       \/ /\ update'.kind = "photo"
          /\ user_data[actor'].awaiting = <<"coords_photo">>

\* C26: a conversion attempt, whether it ends with a result, with no
\* coordinates found, with a failure of the parser or of the transform,
\* leaves source, destination, output mode and the awaiting marker as they
\* were (the whole session, in fact), so the next batch is accepted the same
\* way.
C26_ConversionKeepsSession ==
    [][ConversionAttempt => user_data' = user_data]_vars

\* a typed batch was converted and the session is set up and awaits typed
\* input as before
C26_Witness ==
    /\ update.kind = "text"
    /\ Session.awaiting = <<"coords_input">>
    /\ ConfigComplete(Session)
    /\ \E i \in TransformCalls : ~calls[i].raised
    /\ \E k \in DOMAIN sent : Rendered(sent[k])

\* ------------------------------------------------------------------------
\* Properties of the daily limit
\* ------------------------------------------------------------------------
\* the requests of u admitted so far on the day it is
UsedToday(u) == IF usage[u].date = today THEN usage[u].count ELSE 0

\* the step is an expert-chat request, not the change of the date
ChatRequest ==
    /\ today' = today
    /\ actor' \in Users
    /\ update'.kind = "text"
    /\ GoesToChat(user_data[actor'])

IsPick(upd) ==
    /\ upd.kind = "callback"
    /\ Len(upd.data) = 7
    /\ SubSeq(upd.data, 1, 4) = <<"coords", ":", "pick", ":">>
    /\ upd.data[5] \in {"src", "dst"}
    /\ upd.data[6] = ":"
    /\ <<upd.data[7]>> \in DOMAIN CRS_OPTIONS

IsSimplePick(upd) ==
    IsPick(upd) /\ CRS_OPTIONS[<<upd.data[7]>>].kind = <<"epsg">>

IsFamilyPick(upd) ==
    IsPick(upd) /\ CRS_OPTIONS[<<upd.data[7]>>].kind = <<"sk42_zone">>

IsValidZoneChoice(upd) == IsZoneChoice(upd) /\ ZoneOf(upd) \in MinZone..MaxZone

\* the CRS a selection names
SelectedCode(upd) ==
    IF IsSimplePick(upd) THEN CRS_OPTIONS[<<upd.data[7]>>].code
    ELSE <<"EPSG:">> \o str(ZoneBase + ZoneOf(upd))

\* the fields that hold the CRS of a kind and its label
CrsFields(kind) ==
    IF kind = "src" THEN {"coords_src", "coords_src_label"}
    ELSE {"coords_dst", "coords_dst_label"}

\* the step handles a selection made for the kind
SelectionFor(kind) ==
    /\ actor' \in Users
    /\ IsSimplePick(update') \/ IsValidZoneChoice(update')
    /\ update'.data[5] = kind

\* C28: a simple pick or a choice of a zone 1..60 made for source stores the
\* CRS it names in the source CRS and changes no field of the session but
\* the source CRS and its label; one made for destination does the same with
\* the destination CRS and its label.  The other CRS, the output mode and the
\* awaiting marker stay as they were.
C28_SelectionsIndependent ==
    [][\A kind \in {"src", "dst"} :
          SelectionFor(kind)
          => /\ user_data'[actor']["coords_" \o kind] = SelectedCode(update')
             /\ \A f \in DOMAIN EmptyUserData \ CrsFields(kind) :
                   user_data'[actor'][f] = user_data[actor'][f]]_vars

\* a simple pick for destination was stored beside a zoned source, an output
\* mode and an awaiting marker
C28_Witness ==
    /\ actor \in Users
    /\ IsSimplePick(update)
    /\ update.data[5] = "dst"
    /\ Session.coords_dst = CRS_OPTIONS[<<"merc">>].code
    /\ Session.coords_src = <<"EPSG:">> \o str(ZoneBase + 7)
    /\ Truthy(Session.coords_out_mode_code)
    /\ Session.awaiting = <<"coords_input">>

IsPageSwitch(upd) ==
    /\ upd.kind = "callback"
    /\ Len(upd.data) >= 4
    /\ SubSeq(upd.data, 1, 4) = <<"coords", ":", "zone_page", ":">>

\* the step handles a press made inside the zone sub-state that chooses no
\* zone: the pick of the zoned family, a page switch, a zone out of range
ZoneSubstateStep ==
    /\ actor' \in Users
    /\ \/ IsFamilyPick(update')
       \/ IsPageSwitch(update')
       \/ IsZoneChoice(update') /\ ~IsValidZoneChoice(update')

\* C29: picking the zoned family for source or destination, switching the
\* page of zones and naming a zone out of 1..60 leave both CRS and their
\* labels as they were, unset or chosen earlier; the CRS of the kind changes
\* when a zone 1..60 is chosen, to the CRS of that zone.
C29_FamilyPickSetsNothing ==
    [][/\ ZoneSubstateStep
          => \A f \in CrsFields("src") \cup CrsFields("dst") :
                user_data'[actor'][f] = user_data[actor'][f]
       /\ (actor' \in Users /\ IsValidZoneChoice(update'))
          => user_data'[actor']["coords_" \o update'.data[5]]
                = <<"EPSG:">> \o str(ZoneBase + ZoneOf(update'))]_vars

\* the second page of zones is shown for the destination, which still holds
\* the CRS picked earlier, while the source is unset
C29_Witness ==
    /\ actor \in Users
    /\ IsPageSwitch(update)
    /\ Session.coords_zone_page = <<"2">>
    /\ Session.awaiting_zone_kind = <<"dst">>
    /\ Session.coords_dst = CRS_OPTIONS[<<"merc">>].code
    /\ Session.coords_src = None

\* the step handles a press of the ready button
ReadyPressed ==
    /\ actor' \in Users
    /\ update'.kind = "callback"
    /\ update'.data = <<"coords", ":", "ready">>

\* source CRS, destination CRS and output mode of the session are all set
Complete(ud) ==
    /\ Truthy(ud.coords_src)
    /\ Truthy(ud.coords_dst)
    /\ Truthy(ud.coords_out_mode_code)

\* C30: the ready button pressed while source CRS, destination CRS or
\* output mode is unset changes no field of the session, the awaiting marker
\* included; pressed with all three set it makes the awaiting marker
\* coords_input and changes no other field.
C30_ReadyGated ==
    [][ReadyPressed
       => IF Complete(user_data[actor'])
          THEN user_data'[actor']
                  = [user_data[actor'] EXCEPT !.awaiting = <<"coords_input">>]
          ELSE user_data'[actor'] = user_data[actor']]_vars

\* ready was refused with only the output mode missing, and the marker set
\* in the cadastre section is still there
C30_Witness ==
    /\ actor \in Users
    /\ update = [kind |-> "callback", data |-> <<"coords", ":", "ready">>]
    /\ Truthy(Session.coords_src)
    /\ Truthy(Session.coords_dst)
    /\ ~Truthy(Session.coords_out_mode_code)
    /\ Session.awaiting = <<"cad_manual">>

\* the data is a pick with an unknown catalog key, a pick or a zone choice
\* with a number of fields other than four, or an unknown output mode
InvalidSelection(upd) ==
    /\ upd.kind = "callback"
    /\ \/ /\ startswith(upd.data, <<"coords", ":", "pick", ":">>)
          /\ \/ Len(split(upd.data)) # 4
             \/ split(upd.data)[4] \notin DOMAIN CRS_OPTIONS
       \/ /\ startswith(upd.data, <<"coords", ":", "zone", ":">>)
          /\ Len(split(upd.data)) # 4
       \/ /\ startswith(upd.data, <<"coords", ":", "out", ":">>)
          /\ split(upd.data)[Len(split(upd.data))] \notin {<<"chat">>, <<"csv">>}

\* C31: a pick with an unknown catalog key, a pick or zone callback with a
\* number of fields other than four and an output mode other than chat or
\* csv change no field of the session: source CRS, destination CRS, output
\* mode and the awaiting marker stay as they were.
C31_InvalidSelectionIgnored ==
    [][(actor' \in Users /\ InvalidSelection(update'))
       => user_data'[actor'] = user_data[actor']]_vars

\* an unknown output mode was refused in a session that is set up and waits
\* for its input
C31_Witness ==
    /\ actor \in Users
    /\ update.kind = "callback"
    /\ update.data = <<"coords", ":", "out", ":", "xml">>
    /\ Complete(Session)
    /\ Session.coords_out_mode_code = <<"csv">>
    /\ Session.awaiting = <<"coords_input">>

\* ------------------------------------------------------------------------
\* Properties of the usage store
\* ------------------------------------------------------------------------
\* the step serves /usage, which calls get_usage
UsageRequest ==
    today' = today /\ actor' \in Users /\ update'.kind = "usage"

\* the verdict of check_and_increment on the request the step serves
Admitted == check_and_increment(usage[actor'], today).allowed

C33_HistoryBounded ==
    \A u \in Users :
        user_data[u].chat_history # None
        => Len(user_data[u].chat_history) <= HistoryLimit

\* the handler of the step called the language model: the expert chat's
\* request or the recognition of a photograph
ModelCalled ==
    /\ actor' \in Users
    /\ \E i \in 1..Len(calls') : calls'[i].fn \in {"llm", "recognize"}

\* C34: every call of the language model made for a user is counted against
\* that user's daily limit: the handler that makes it has raised the user's
\* count of the day by one, within DAILY_LIMIT, so that a user triggers no
\* more than DAILY_LIMIT model calls in a day.
C34_ModelCallsCounted ==
    [][ModelCalled
       => /\ usage'[actor'].date = today
          /\ usage'[actor'].count = get_usage(usage[actor'], today) + 1
          /\ usage'[actor'].count <= DAILY_LIMIT]_vars

\* C35: the message list handle_expert_chat passes to the language model
\* begins with a message of the user role, however long the conversation
\* before it was, also when the history was cut to its last 20 entries.
C35_FirstMessageFromUser ==
    \A i \in 1..Len(calls) :
        calls[i].fn = "llm" => calls[i].args[1] = "user"

\* ------------------------------------------------------------------------
\* Properties of the monitor of regulatory documents
\* ------------------------------------------------------------------------
\* the step is one cycle of the monitor
MonitorCycle == today' = today /\ update'.kind = "nd check"

\* the ids of the documents the messages announce
Announced(msgs) == {msgs[i].doc_id : i \in 1..Len(msgs)}

=============================================================================
